---- MODULE Spec2Model ----
(***************************************************************************)
(* A model of the ChatWeb client: the App shell (settings in local         *)
(* storage), the URL helpers, and the Chat view's state, handlers,         *)
(* effects, in-flight requests and push channel.                           *)
(*                                                                         *)
(* React is modelled as React 18 does it: the state updates of one         *)
(* synchronous block (an event handler, or the continuation of an await)   *)
(* are batched, the component re-renders once, and the effects whose       *)
(* dependencies changed then run.  A handler reads React state through the *)
(* closure of the render that created it; the closure of the registered    *)
(* syncFromUrl listener is kept in eff.                                    *)
(***************************************************************************)
EXTENDS Integers, Sequences, FiniteSets, TLC

VARIABLES
    app,      \* local storage and the App component: storage, saved, settings, starting
    url,      \* the page URL's query: thread_id and the legacy threadId parameter
    chat,     \* the mounted Chat's React state (useState cells)
    refs,     \* the mounted Chat's refs: suppressNextUrlSyncRef, sseRef, lastOpenMsgRef
    eff,      \* the closure the effects last ran with: loadedThreadId, inspectLoading
    conns,    \* the EventSource connections that are open
    net,      \* requests in flight: sends, loads (thread history), inspects
    clock,    \* Date.now(), uuid() and the mount generation
    used,     \* how many of each bounded stimulus have happened
    last,     \* what the latest step did (history variable, read by the properties)
    probe,    \* the latest call of a pure function: its name, input and result
    tree,     \* a JsonTree: its value, defaultExpandedDepth and the `open` of each
              \* Node that is mounted
    onboarding \* Onboarding's company list: apiEnv, companies, companiesLoading,
              \* companiesError, and its requests in flight

vars == <<app, url, chat, refs, eff, conns, net, clock, used, last, probe, onboarding, tree>>

vars_program == <<app, url, chat, refs, eff, conns, net, clock, used, onboarding, tree>>

----------------------------------------------------------------------------
(* Bounds of the model.                                                    *)

MaxSends == 2
MaxPush == 2
MaxPopstate == 1
MaxMounts == 2
MaxTicks == 2
MaxInspects == 1
MaxStorageOps == 3
MaxLocationCalls == 3
MaxEvents == 4
MaxLoads == 3

(* Program constants.                                                      *)

SseDedupMs == 5000
StepDedupMs == 10000

----------------------------------------------------------------------------
(* Values.                                                                 *)

Null == "<null>"
Undefined == "<undefined>"
None == <<>>
Some(x) == <<x>>

\* What Date.parse gives for a string that is no date: the one number of
\* the model that is not finite.
NaN == -1

ThreadIds == {"T1", "T2"}

\* String.prototype.trim on the strings the model draws its inputs from.
Trim(s) ==
    CASE s = " " -> ""
      [] s = " hi " -> "hi"
      [] s = " T1 " -> "T1"
      [] s = " wait " -> "wait"
      [] s = " co1 " -> "co1"
      [] s = " Ana " -> "Ana"
      [] OTHER -> s

\* The clock advances in steps of the push de-duplication window.
TickMs == SseDedupMs

----------------------------------------------------------------------------
(* src/utils/storage.ts                                                    *)

SettingsKeys == <<"companyId", "customerPhone", "customerName", "apiBaseUrl">>

\* JSON.stringify of a settings object: the members in insertion order, a
\* member whose value is undefined left out.  The text is kept as the sequence
\* of its "key": value members.
JSONstringify(s) ==
    SelectSeq([i \in 1..Len(SettingsKeys) |-> <<SettingsKeys[i], s[SettingsKeys[i]]>>],
              LAMBDA p : p[2] # Undefined)

\* A text JSON.parse accepts: every member is a key with a value.
WellFormed(raw) == \A i \in 1..Len(raw) : Len(raw[i]) = 2

Member(raw, k) ==
    IF \E i \in 1..Len(raw) : raw[i][1] = k
    THEN raw[CHOOSE i \in 1..Len(raw) : raw[i][1] = k /\ \A j \in (i+1)..Len(raw) : raw[j][1] # k][2]
    ELSE Undefined

\* JSON.parse: None when it throws, else the object read back; a member the
\* text does not hold reads as undefined.
JSONparse(raw) ==
    IF WellFormed(raw)
    THEN Some([companyId |-> Member(raw, "companyId"),
               customerPhone |-> Member(raw, "customerPhone"),
               customerName |-> Member(raw, "customerName"),
               apiBaseUrl |-> Member(raw, "apiBaseUrl")])
    ELSE None

\* loadSettings(): null (None) when nothing is stored, the text is empty or
\* JSON.parse throws.
loadSettings(storage) ==
    IF storage = None THEN None
    ELSE IF storage[1] = <<>> THEN None
    ELSE JSONparse(storage[1])

\* A saveSettings that writes nothing: the variant C9 is checked against.
saveSettingsNowhere(storage, s) == storage

\* saveSettings(s): the storage after localStorage.setItem(KEY, JSON.stringify(s)).
saveSettings(storage, s) == Some(JSONstringify(s))

\* clearSettings(): the storage after localStorage.removeItem(KEY).
clearSettings(storage) == None

----------------------------------------------------------------------------
(* The world: every variable in one record, so that a handler and the      *)
(* effects it triggers compose as functions.                               *)

World ==
    [app |-> app, url |-> url, chat |-> chat, refs |-> refs, eff |-> eff,
     conns |-> conns, net |-> net, clock |-> clock, used |-> used]

Becomes(w) ==
    /\ app' = w.app
    /\ url' = w.url
    /\ chat' = w.chat
    /\ refs' = w.refs
    /\ eff' = w.eff
    /\ conns' = w.conns
    /\ net' = w.net
    /\ clock' = w.clock
    /\ used' = w.used

Mounted(w) == w.app.settings # None

\* uuid(): an id never given before.
uuid(w) == w.clock.nextId

Fresh(w) == [w EXCEPT !.clock.nextId = @ + 1]

----------------------------------------------------------------------------
(* Chat.tsx (src/src/types.ts, lines 77-1094): messages and context        *)

StartText == "Conversa iniciada. Envie uma mensagem para o ai-framework (provider: simple)."
ClosedText == "Conversa encerrada. Voce ja pode iniciar uma nova conversa."
LoadingText(tid) == "Carregando thread: " \o tid \o "..."
LoadedText(tid) == "Thread carregada: " \o tid
ThreadText(tid) == "Thread: " \o tid

\* A ChatMessage.  trace is None or Some([ok, json]); json is None (null) or
\* Some(body) with the backend's JSON.
ChatMessage(id, role, text, createdAt, trace) ==
    [id |-> id, role |-> role, text |-> text, createdAt |-> createdAt, trace |-> trace]

Truthy(v) == v # Undefined /\ v # Null /\ v # ""

\* getString(obj, key): undefined for a missing or null member.
getString(data, key) == IF data[key] = Null THEN Undefined ELSE data[key]

\* a || b on strings and undefined.
OrElse(a, b) == IF Truthy(a) THEN a ELSE b

\* extractConversationContextFromResponseJson(json): None for null; the
\* context is kept only when a field other than threadId is set.  (The
\* responses of the model carry no platform and no external id, the other
\* fields hasAny reads.)
extractConversationContextFromResponseJson(json) ==
    IF json = None THEN None
    ELSE IF json[1].data = None THEN None
    ELSE LET data == json[1].data[1]
             ctx == [assistantId |-> getString(data, "assistant_id"),
                     customerId |-> getString(data, "customer_id"),
                     companyId |-> getString(data, "company_id"),
                     threadId |-> getString(data, "thread_id")]
             hasAny == Truthy(ctx.assistantId) \/ Truthy(ctx.customerId) \/ Truthy(ctx.companyId)
         IN  IF hasAny THEN Some(ctx) ELSE None

TraceJson(m) == IF m.trace = None THEN None ELSE m.trace[1].json

\* messages.findIndex((m) => m.id === selectedId): 0 when there is none.
selectedIndex(c) ==
    IF c.selectedId # None /\ \E i \in 1..Len(c.messages) : c.messages[i].id = c.selectedId[1]
    THEN CHOOSE i \in 1..Len(c.messages) :
            /\ c.messages[i].id = c.selectedId[1]
            /\ \A j \in 1..(i-1) : c.messages[j].id # c.selectedId[1]
    ELSE 0

HasCtx(m) == extractConversationContextFromResponseJson(TraceJson(m)) # None

\* The last index at or below `from` whose message carries a context; 0 if none.
LastCtxIndex(msgs, from) ==
    IF \E i \in 1..from : HasCtx(msgs[i])
    THEN CHOOSE i \in 1..from : HasCtx(msgs[i]) /\ \A j \in (i+1)..from : ~HasCtx(msgs[j])
    ELSE 0

\* An activeCtx that does not look at the selection: the variant C18 is
\* checked against.
activeCtxOfLast(c) ==
    LET b == LastCtxIndex(c.messages, Len(c.messages))
    IN  IF b > 0 THEN extractConversationContextFromResponseJson(TraceJson(c.messages[b]))
        ELSE None

\* activeCtx: the context of the selected message or the nearest one above
\* it; failing that, of the last message that has one.
activeCtx(c) ==
    LET si == selectedIndex(c)
        a == LastCtxIndex(c.messages, si)
        b == LastCtxIndex(c.messages, Len(c.messages))
    IN  IF a > 0 THEN extractConversationContextFromResponseJson(TraceJson(c.messages[a]))
        ELSE IF b > 0 THEN extractConversationContextFromResponseJson(TraceJson(c.messages[b]))
        ELSE None

----------------------------------------------------------------------------
(* Chat.tsx: the URL helpers                                               *)

\* getThreadIdFromLocation(): thread_id, else the legacy threadId, trimmed;
\* null when blank.
getThreadIdFromLocation(u) ==
    LET tid == Trim(IF Truthy(u.thread_id) THEN u.thread_id
                    ELSE IF Truthy(u.threadId) THEN u.threadId ELSE "")
    IN  IF tid = "" THEN Null ELSE tid

\* A resetConversation without setSelectedId(null): the variant C36 is
\* checked against.
resetConversationKeepingSelection(w, systemText) ==
    Fresh([w EXCEPT
        !.chat.messages = <<ChatMessage(uuid(w), "system", systemText, w.clock.now, None)>>,
        !.chat.inspected = None,
        !.chat.inspectError = Null,
        !.chat.error = Null])

\* A resetConversation that empties the list: the variant C35 is checked
\* against.
resetConversationEmpty(w, systemText) ==
    [w EXCEPT
        !.chat.messages = <<>>,
        !.chat.selectedId = None,
        !.chat.inspected = None,
        !.chat.inspectError = Null,
        !.chat.error = Null]

\* resetConversation(systemText): one fresh system message; selection,
\* inspector and error cleared.
resetConversation(w, systemText) ==
    Fresh([w EXCEPT
        !.chat.messages = <<ChatMessage(uuid(w), "system", systemText, w.clock.now, None)>>,
        !.chat.selectedId = None,
        !.chat.inspected = None,
        !.chat.inspectError = Null,
        !.chat.error = Null])

\* loadThreadToChat(threadId) up to its first await: the guard reads
\* inspectLoading through the caller's closure; then the fetch is in flight.
loadThreadToChatStart(w, threadId, inspectLoadingSeen, cause) ==
    LET tid == Trim(threadId)
    IN  IF tid = "" \/ tid = Null THEN w
        ELSE IF inspectLoadingSeen THEN w
        ELSE [w EXCEPT
                !.chat.inspectLoading = TRUE,
                !.chat.inspectError = Null,
                !.chat.error = Null,
                !.net.loads = Append(@, [tid |-> tid, inst |-> w.clock.inst, cause |-> cause]),
                !.used.loads = @ + 1]

\* syncFromUrl() without its "loadedThreadId === tid" return: the variant
\* C2 is checked against.
syncFromUrlReloading(w, cause) ==
    IF w.refs.suppress THEN [w EXCEPT !.refs.suppress = FALSE]
    ELSE LET tid == getThreadIdFromLocation(w.url)
         IN  IF tid = Null
             THEN resetConversation([w EXCEPT !.chat.loadedThreadId = Null], StartText)
             ELSE loadThreadToChatStart(resetConversation(w, LoadingText(tid)),
                                        tid, w.eff.inspectLoading, cause)

\* syncFromUrl() of the Chat effect, with the closure it was created in.
syncFromUrl(w, cause) ==
    IF w.refs.suppress THEN [w EXCEPT !.refs.suppress = FALSE]
    ELSE LET tid == getThreadIdFromLocation(w.url)
         IN  IF tid = Null
             THEN resetConversation([w EXCEPT !.chat.loadedThreadId = Null], StartText)
             ELSE IF w.eff.loadedThreadId = tid THEN w
             ELSE loadThreadToChatStart(resetConversation(w, LoadingText(tid)),
                                        tid, w.eff.inspectLoading, cause)

\* window.dispatchEvent(chatweb:thread_id_changed): the listener runs at once
\* when a Chat is mounted.
DispatchThreadIdChanged(w) == IF Mounted(w) THEN syncFromUrl(w, "event") ELSE w

\* A location rewrite that compares only the thread id and not the whole
\* href: the variant C37 is checked against.
rewriteLocationComparingThreadIdOnly(u, threadId) ==
    LET tid == IF threadId = Null THEN "" ELSE Trim(threadId)
        prev == IF Truthy(u.thread_id) THEN Trim(u.thread_id) ELSE ""
        next == [thread_id |-> IF tid # "" THEN tid ELSE Null, threadId |-> Null]
    IN  IF prev = tid THEN [url |-> u, replaced |-> FALSE]
        ELSE [url |-> next, replaced |-> TRUE]

\* setThreadIdInLocation(threadId) of Chat.tsx up to replaceState: the URL
\* with thread_id rewritten and the legacy threadId dropped; the history
\* entry is left alone when neither the trimmed thread id nor the href
\* differs.
rewriteLocation(u, threadId) ==
    LET tid == IF threadId = Null THEN "" ELSE Trim(threadId)
        prev == IF Truthy(u.thread_id) THEN Trim(u.thread_id) ELSE ""
        next == [thread_id |-> IF tid # "" THEN tid ELSE Null, threadId |-> Null]
    IN  IF prev = tid /\ u = next THEN [url |-> u, replaced |-> FALSE]
        ELSE [url |-> next, replaced |-> TRUE]

\* setThreadIdInLocation(threadId) of Chat.tsx: rewrites thread_id, drops the
\* legacy threadId, and unless nothing changed replaces the history entry and
\* dispatches chatweb:thread_id_changed.
setThreadIdInLocation(w, threadId) ==
    LET to == rewriteLocation(w.url, threadId)
    IN  IF ~to.replaced THEN w
        ELSE DispatchThreadIdChanged([w EXCEPT !.url = to.url])

----------------------------------------------------------------------------
(* Chat.tsx: the effects with dependencies [loadedThreadId, apiBaseUrl]    *)

\* The cleanup of the push-channel effect: es.close(), and sseRef cleared
\* when it still holds es.  An effect run that found no thread id returned
\* before registering a cleanup (eff.es is None).
sseCleanup(w) ==
    IF w.eff.es = None THEN w
    ELSE [w EXCEPT
            !.conns = {c \in @ : c.id # w.eff.es[1]},
            !.refs.sse = IF @ = w.eff.es THEN None ELSE @,
            !.eff.es = None]

\* sseRef.current?.close()
CloseCurrent(w) ==
    IF w.refs.sse = None THEN w
    ELSE [w EXCEPT !.conns = {c \in @ : c.id # w.refs.sse[1]}]

\* The body of the push-channel effect, run with the render's loadedThreadId.
sseEffect(w, renderLoadedThreadId) ==
    LET fromUrl == getThreadIdFromLocation(w.url)
        tid == Trim(IF Truthy(renderLoadedThreadId) THEN renderLoadedThreadId
                    ELSE IF Truthy(fromUrl) THEN fromUrl ELSE "")
    IN  IF tid = ""
        THEN [CloseCurrent(w) EXCEPT !.refs.sse = None]
        ELSE LET w1 == CloseCurrent(w)
                 es == uuid(w1)
             IN  Fresh([w1 EXCEPT
                    !.conns = @ \cup {[id |-> es, tid |-> tid, inst |-> w1.clock.inst]},
                    !.refs.sse = Some(es),
                    !.eff.es = Some(es)])

\* One run of both effects after a commit: the render's values become the
\* closure, the cleanups run, then syncFromUrl() and the push-channel effect.
RunEffects(w, cause) ==
    LET rendered == w.chat.loadedThreadId
        w1 == [w EXCEPT !.eff.loadedThreadId = rendered,
                        !.eff.inspectLoading = w.chat.inspectLoading]
        w2 == sseCleanup(w1)
        w3 == syncFromUrl(w2, cause)
    IN  sseEffect(w3, rendered)

\* The re-render after a batch of updates: the effects run again while
\* loadedThreadId differs from the value they last ran with.
RECURSIVE Commit(_)
Commit(w) ==
    IF Mounted(w) /\ w.chat.loadedThreadId # w.eff.loadedThreadId
    THEN Commit(RunEffects(w, "rerun"))
    ELSE w

\* The useState and useRef initial values of Chat.
InitialChat(w) ==
    [messages |-> <<ChatMessage(uuid(w), "system", StartText, w.clock.now, None)>>,
     draft |-> "",
     loading |-> FALSE,
     error |-> Null,
     selectedId |-> None,
     inspected |-> None,
     inspectLoading |-> FALSE,
     inspectError |-> Null,
     loadedThreadId |-> Null]

InitialRefs == [suppress |-> FALSE, sse |-> None, lastOpenMsg |-> None]

InitialEff == [loadedThreadId |-> Null, inspectLoading |-> FALSE, es |-> None]

\* The state kept for a Chat that is not mounted.
NoChat ==
    [messages |-> <<>>, draft |-> "", loading |-> FALSE, error |-> Null,
     selectedId |-> None, inspected |-> None, inspectLoading |-> FALSE,
     inspectError |-> Null, loadedThreadId |-> Null]

\* Chat mounts: first render, then both effects run.
MountChat(w) ==
    LET w1 == Fresh([w EXCEPT
                !.clock.inst = @ + 1,
                !.chat = InitialChat(w),
                !.refs = InitialRefs,
                !.eff = InitialEff])
    IN  Commit(RunEffects(w1, "mount"))

\* Chat unmounts: the effects' cleanups run (listeners removed, es closed);
\* its state setters become no-ops.  A history load of it that is still in
\* flight goes on to rewrite the URL when it succeeds; its other pending
\* continuations only set state and are dropped here.
UnmountChat(w) ==
    LET w1 == sseCleanup(w)
    IN  [w1 EXCEPT !.chat = NoChat, !.refs = InitialRefs, !.eff = InitialEff,
                   !.net.inspects = <<>>]

----------------------------------------------------------------------------
(* src/api/client.ts: sendMessage                                          *)

\* What the network gives back to a fetch: a rejection, or a response with a
\* status and a body text that parses to `body` when `json` is TRUE.
\* sendMessage(settings, message) as its caller sees it: either it throws
\* (threw, with the Error's message and the fields hung on it) or it returns
\* the parsed body.
StatusText(status) ==
    CASE status = 200 -> "200"
      [] status = 404 -> "404"
      [] status = 500 -> "500"

sendMessage(resp) ==
    IF resp.kind = "rejected"
    THEN [threw |-> TRUE, message |-> "Failed to fetch", hasStatus |-> FALSE,
          status |-> 0, response |-> None]
    ELSE LET ok == resp.status >= 200 /\ resp.status <= 299
             data == IF resp.json THEN resp.body
                     ELSE [success |-> FALSE,
                           error |-> "Resposta invalida (" \o StatusText(resp.status) \o ")",
                           answer |-> "",
                           data |-> None, steps |-> <<>>]
         IN  IF ~ok \/ data.success = FALSE
             THEN [threw |-> TRUE,
                   message |-> IF Truthy(data.error) THEN data.error
                               ELSE "Erro HTTP " \o StatusText(resp.status),
                   hasStatus |-> TRUE, status |-> resp.status, response |-> Some(data)]
             ELSE [threw |-> FALSE, message |-> "", hasStatus |-> TRUE,
                   status |-> resp.status, response |-> Some(data)]

----------------------------------------------------------------------------
(* Chat.tsx: open messages recovered from a response's steps               *)

OpenMessageNames == {"tool_open_message.search", "assistant_open_message.greet"}

\* Array.prototype.sort by createdAt, ascending and stable.
RECURSIVE InsertByCreatedAt(_, _)
InsertByCreatedAt(sorted, e) ==
    IF sorted = <<>> THEN <<e>>
    ELSE IF e.createdAt < Head(sorted).createdAt THEN <<e>> \o sorted
    ELSE <<Head(sorted)>> \o InsertByCreatedAt(Tail(sorted), e)

RECURSIVE SortByCreatedAt(_)
SortByCreatedAt(evs) ==
    IF evs = <<>> THEN <<>>
    ELSE InsertByCreatedAt(SortByCreatedAt(SubSeq(evs, 1, Len(evs) - 1)), evs[Len(evs)])

\* An extractOpenMessagesFromSteps that keeps the order of the steps: the
\* variant C34 is checked against.
extractOpenMessagesFromStepsUnsorted(body, now) ==
    LET keep == SelectSeq(body.steps, LAMBDA st :
                    st.name \in OpenMessageNames /\ st.message # Undefined /\ Trim(st.message) # "")
    IN  [i \in 1..Len(keep) |->
            [text |-> Trim(keep[i].message),
             createdAt |-> IF keep[i].start = None \/ keep[i].start[1] = NaN
                           THEN now ELSE keep[i].start[1]]]

\* extractOpenMessagesFromSteps(rawResponse): the steps named
\* tool_open_message.* or assistant_open_message.* with a non-blank
\* request.message, trimmed, stamped with the step's start (Date.now() when
\* it does not parse), oldest first.
extractOpenMessagesFromSteps(body, now) ==
    LET steps == body.steps
        keep == SelectSeq(steps, LAMBDA st :
                    st.name \in OpenMessageNames /\ st.message # Undefined /\ Trim(st.message) # "")
        out == [i \in 1..Len(keep) |->
                    [text |-> Trim(keep[i].message),
                     createdAt |-> IF keep[i].start = None \/ keep[i].start[1] = NaN
                                   THEN now ELSE keep[i].start[1]]]
    IN  SortByCreatedAt(out)

Abs(n) == IF n < 0 THEN -n ELSE n

\* The de-duplication test of onSend against lastOpenMsgRef.current.
StepDuplicate(lastRef, tid, ev, now) ==
    /\ lastRef # None
    /\ lastRef[1].threadId = tid
    /\ lastRef[1].text = ev.text
    /\ (now - lastRef[1].ts < StepDedupMs \/ Abs(ev.createdAt - lastRef[1].ts) < StepDedupMs)

\* The loop of onSend over the recovered events: the events it keeps, and
\* lastOpenMsgRef.current afterwards.  (at: when the record was written.)
RECURSIVE KeepOpenEvents(_, _, _, _)
KeepOpenEvents(evs, lastRef, tid, now) ==
    IF evs = <<>> THEN [kept |-> <<>>, lastRef |-> lastRef]
    ELSE IF StepDuplicate(lastRef, tid, Head(evs), now)
    THEN KeepOpenEvents(Tail(evs), lastRef, tid, now)
    ELSE LET rec == Some([threadId |-> tid, text |-> Head(evs).text,
                          ts |-> Head(evs).createdAt, at |-> now])
             rest == KeepOpenEvents(Tail(evs), rec, tid, now)
         IN  [kept |-> <<Head(evs)>> \o rest.kept, lastRef |-> rest.lastRef]

\* String(data.command || '').trim().toLowerCase() names a close or a
\* delete-user, or data.action does.
IsCloseResponse(body) ==
    /\ body.data # None
    /\ \/ body.data[1].command \in {"#close", "#delete-user"}
       \/ body.data[1].action \in {"close_threads", "delete_user"}

----------------------------------------------------------------------------
(* Chat.tsx: onSend                                                        *)

\* onSend() without its test of the draft: the variant C31 is checked
\* against.
onSendBlankDraft(w) ==
    LET text == Trim(w.chat.draft)
        userMsg == ChatMessage(uuid(w), "user", text, w.clock.now, None)
    IN  IF w.chat.loading THEN w
        ELSE Fresh([w EXCEPT
                !.chat.draft = "",
                !.chat.error = Null,
                !.chat.messages = Append(@, userMsg),
                !.chat.selectedId = Some(userMsg.id),
                !.chat.loading = TRUE,
                !.net.sends = Append(@, [text |-> text,
                                         prevThreadId |-> getThreadIdFromLocation(w.url),
                                         tracked |-> w.chat.loadedThreadId,
                                         sentAt |-> w.clock.now,
                                         userMsg |-> userMsg,
                                         inst |-> w.clock.inst])])

\* onSend() without its "loading" guard: the variant C5 is checked against.
onSendWhileLoading(w) ==
    LET text == Trim(w.chat.draft)
        userMsg == ChatMessage(uuid(w), "user", text, w.clock.now, None)
    IN  IF text = "" THEN w
        ELSE Fresh([w EXCEPT
                !.chat.draft = "",
                !.chat.error = Null,
                !.chat.messages = Append(@, userMsg),
                !.chat.selectedId = Some(userMsg.id),
                !.chat.loading = TRUE,
                !.net.sends = Append(@, [text |-> text,
                                         prevThreadId |-> getThreadIdFromLocation(w.url),
                                         tracked |-> w.chat.loadedThreadId,
                                         sentAt |-> w.clock.now,
                                         userMsg |-> userMsg,
                                         inst |-> w.clock.inst])])

\* onSend() up to its await: nothing for a blank draft or while loading;
\* else the user message is appended and selected and the POST is in flight.
\* (tracked: loadedThreadId at that moment, kept to state properties.)
onSend(w) ==
    LET text == Trim(w.chat.draft)
        userMsg == ChatMessage(uuid(w), "user", text, w.clock.now, None)
    IN  IF text = "" \/ w.chat.loading THEN w
        ELSE Fresh([w EXCEPT
                !.chat.draft = "",
                !.chat.error = Null,
                !.chat.messages = Append(@, userMsg),
                !.chat.selectedId = Some(userMsg.id),
                !.chat.loading = TRUE,
                !.net.sends = Append(@, [text |-> text,
                                         prevThreadId |-> getThreadIdFromLocation(w.url),
                                         tracked |-> w.chat.loadedThreadId,
                                         sentAt |-> w.clock.now,
                                         userMsg |-> userMsg,
                                         inst |-> w.clock.inst])])

\* The thread id a response body carries in data.thread_id (Null when none).
ResponseThreadId(body) ==
    IF body.data = None THEN Null
    ELSE IF Truthy(body.data[1].thread_id) /\ Trim(body.data[1].thread_id) # ""
    THEN Trim(body.data[1].thread_id) ELSE Null

\* (ctx?.threadId || '').trim() || null
CtxThreadId(body) ==
    LET ctx == extractConversationContextFromResponseJson(Some(body))
    IN  IF ctx = None THEN Null
        ELSE IF Truthy(ctx[1].threadId) /\ Trim(ctx[1].threadId) # "" THEN Trim(ctx[1].threadId)
        ELSE Null

\* The list a close or a thread switch replaces the messages by.
FreshList(w, bannerText, userMsg, openMsgs, assistantMsg) ==
    <<ChatMessage(uuid(w), "system", bannerText, w.clock.now, None), userMsg>>
        \o openMsgs \o <<assistantMsg>>

\* onSend() after sendMessage returned: the try block and the finally.
onSendResolved(w, req, raw) ==
    LET now == w.clock.now
        answer == IF Trim(raw.answer) = "" THEN "[sem resposta]" ELSE Trim(raw.answer)
        assistantMsg == ChatMessage(uuid(w), "assistant", answer, now,
                                    Some([ok |-> TRUE, json |-> Some(raw)]))
        w1 == Fresh(w)
        openEvents == extractOpenMessagesFromSteps(raw, now)
        ctxTid == CtxThreadId(raw)
        ctx == extractConversationContextFromResponseJson(Some(raw))
        tidForDedup == Trim(IF ctx # None /\ Truthy(ctx[1].threadId) THEN ctx[1].threadId
                            ELSE IF req.prevThreadId # Null THEN req.prevThreadId ELSE "")
        loop == KeepOpenEvents(openEvents, w1.refs.lastOpenMsg, tidForDedup, now)
        openMsgs == [i \in 1..Len(loop.kept) |->
                        ChatMessage(uuid(w1) + i - 1, "assistant", loop.kept[i].text,
                                    loop.kept[i].createdAt, None)]
        w2 == [w1 EXCEPT !.refs.lastOpenMsg = loop.lastRef,
                         !.clock.nextId = @ + Len(openMsgs)]
        selectReply(x) == [x EXCEPT !.chat.selectedId = Some(assistantMsg.id),
                                    !.chat.inspected = None,
                                    !.chat.inspectError = Null]
        closed ==
            LET a == setThreadIdInLocation([w2 EXCEPT !.refs.suppress = TRUE], Null)
            IN  selectReply(Fresh([a EXCEPT
                    !.chat.loadedThreadId = Null,
                    !.chat.messages = FreshList(a, ClosedText, req.userMsg, openMsgs, assistantMsg)]))
        switched ==
            LET a == setThreadIdInLocation([w2 EXCEPT !.refs.suppress = TRUE], ctxTid)
            IN  selectReply(Fresh([a EXCEPT
                    !.chat.loadedThreadId = ctxTid,
                    !.chat.messages = FreshList(a, ThreadText(ctxTid), req.userMsg, openMsgs, assistantMsg)]))
        persisted ==
            IF ctxTid = Null THEN w2
            ELSE [setThreadIdInLocation([w2 EXCEPT !.refs.suppress = TRUE], ctxTid)
                    EXCEPT !.chat.loadedThreadId = ctxTid]
        appended ==
            selectReply([persisted EXCEPT !.chat.messages = @ \o openMsgs \o <<assistantMsg>>])
        done == IF IsCloseResponse(raw) THEN closed
                ELSE IF ctxTid # Null /\ req.prevThreadId # Null /\ req.prevThreadId # ctxTid
                THEN switched
                ELSE appended
    IN  [done EXCEPT !.chat.loading = FALSE]

\* A catch block that sets the error string and appends no message: the
\* variant C4 is checked against.
onSendRejectedSilently(w, req, res) ==
    [w EXCEPT !.chat.error = res.message, !.chat.inspected = None, !.chat.loading = FALSE]

\* The catch block without the finally: the variant C30 is checked against.
onSendRejectedNoFinally(w, req, res) ==
    LET assistantMsg == ChatMessage(uuid(w), "assistant",
                                    "Erro ao chamar o backend: " \o res.message, w.clock.now,
                                    Some([ok |-> FALSE, json |-> res.response]))
    IN  Fresh([w EXCEPT
            !.chat.error = res.message,
            !.chat.messages = Append(@, assistantMsg),
            !.chat.selectedId = Some(assistantMsg.id),
            !.chat.inspected = None])

\* onSend() after sendMessage threw: the catch block and the finally.
onSendRejected(w, req, res) ==
    LET assistantMsg == ChatMessage(uuid(w), "assistant",
                                    "Erro ao chamar o backend: " \o res.message, w.clock.now,
                                    Some([ok |-> FALSE, json |-> res.response]))
    IN  Fresh([w EXCEPT
            !.chat.error = res.message,
            !.chat.messages = Append(@, assistantMsg),
            !.chat.selectedId = Some(assistantMsg.id),
            !.chat.inspected = None,
            !.chat.loading = FALSE])

\* The continuation of onSend when its request settles.
onSendSettled(w, req, resp) ==
    LET res == sendMessage(resp)
    IN  IF res.threw THEN onSendRejected(w, req, res)
        ELSE onSendResolved(w, req, res.response[1])

----------------------------------------------------------------------------
(* Chat.tsx: loadThreadToChat after its fetch, and the inspector lookups   *)

\* A parseDateToMs that hands on what Date.parse gave: the variant C16 is
\* checked against.
parseDateToMsUnchecked(v, now) == IF v = None THEN now ELSE v[1]

\* parseDateToMs(v): the time v holds; Date.now() when v is absent or blank
\* (None) or a string Date.parse makes NaN of.
parseDateToMs(v, now) == IF v = None \/ v[1] = NaN THEN now ELSE v[1]

\* buildSyntheticTraceFromThreadMessage(thread, row, timingMs)
buildSyntheticTraceFromThreadMessage(thread, row) ==
    Some([ok |-> TRUE,
          json |-> Some([success |-> TRUE, error |-> Undefined, answer |-> "", steps |-> <<>>,
                         data |-> Some([thread_id |-> thread.id,
                                        assistant_id |-> row.assistant_id,
                                        customer_id |-> thread.customer_id,
                                        company_id |-> thread.company_id,
                                        command |-> Undefined,
                                        action |-> Undefined])])])

\* The messages one history row replays: a user message for a non-blank
\* input, then an assistant message for a non-blank output.
RowMessages(thread, row, id, now) ==
    LET createdAt == parseDateToMs(row.created_at, now)
        repliedAt == IF row.replied_at = None THEN createdAt ELSE parseDateToMs(row.replied_at, now)
        hasInput == row.input # Undefined /\ Trim(row.input) # ""
        hasOutput == row.output # Undefined /\ Trim(row.output) # ""
        user == IF hasInput THEN <<ChatMessage(id, "user", row.input, createdAt, None)>> ELSE <<>>
        asst == IF hasOutput
                THEN <<ChatMessage(id + Len(user), "assistant", row.output, repliedAt,
                                   buildSyntheticTraceFromThreadMessage(thread, row))>>
                ELSE <<>>
    IN  user \o asst

RECURSIVE ReplayRows(_, _, _, _)
ReplayRows(thread, rows, id, now) ==
    IF rows = <<>> THEN <<>>
    ELSE LET first == RowMessages(thread, Head(rows), id, now)
         IN  first \o ReplayRows(thread, Tail(rows), id + Len(first), now)

\* What `fetch` then `resp.text()` then `JSON.parse` make of a GET: the
\* Error's message when one of them throws or the status is not 2xx
\* (the body is parsed before the status is looked at), else the JSON.
ReadJson(resp) ==
    IF resp.kind = "rejected" THEN [threw |-> TRUE, message |-> "Failed to fetch", json |-> None]
    ELSE IF resp.text = "garbage" THEN [threw |-> TRUE, message |-> "Unexpected token", json |-> None]
    ELSE IF ~(resp.status >= 200 /\ resp.status <= 299)
    THEN [threw |-> TRUE, message |-> "HTTP error", json |-> None]
    ELSE [threw |-> FALSE, message |-> "",
          json |-> IF resp.text = "empty" THEN None ELSE Some(resp.body)]

\* loadThreadToChat(threadId) after its fetch settled, in the Chat that
\* started it: the history replaces the list, the thread id is tracked and
\* written to the URL; a failure goes to the inspector.
loadThreadToChatSettled(w, tid, resp) ==
    LET got == ReadJson(resp)
        now == w.clock.now
        thread == IF got.json = None
                  THEN [id |-> Undefined, customer_id |-> Undefined, company_id |-> Undefined]
                  ELSE got.json[1].thread
        rows == IF got.json = None THEN <<>> ELSE got.json[1].messages
        banner == ChatMessage(uuid(w), "system", LoadedText(tid), now, None)
        nextMessages == <<banner>> \o ReplayRows(thread, rows, uuid(w) + 1, now)
        w1 == [w EXCEPT
                !.clock.nextId = @ + Len(nextMessages),
                !.chat.messages = nextMessages,
                !.chat.selectedId = Some(nextMessages[Len(nextMessages)].id),
                !.chat.inspected = None,
                !.chat.loadedThreadId = tid]
        done == IF got.threw
                THEN [w EXCEPT
                        !.chat.inspectError = got.message,
                        !.chat.inspected = Some([title |-> "threads: " \o tid, value |-> "error"])]
                ELSE setThreadIdInLocation(w1, tid)
    IN  [done EXCEPT !.chat.inspectLoading = FALSE]

\* The same continuation in a Chat that has been unmounted since: its state
\* setters do nothing, the URL is still rewritten.
loadThreadToChatOrphan(w, tid, resp) ==
    IF ReadJson(resp).threw THEN w ELSE setThreadIdInLocation(w, tid)

\* inspectThread(): the thread pill's onClick.
inspectThread(w) ==
    LET ctx == activeCtx(w.chat)
        fromUrl == getThreadIdFromLocation(w.url)
        tid == IF ctx # None /\ Truthy(ctx[1].threadId) THEN ctx[1].threadId ELSE fromUrl
    IN  IF tid = Null THEN w
        ELSE loadThreadToChatStart(w, tid, w.chat.inspectLoading, "click")

\* The id an inspector lookup of `kind` is made for; Null when its button
\* does nothing.
InspectTarget(w, kind) ==
    LET ctx == activeCtx(w.chat)
    IN  CASE kind = "assistant" ->
                IF ctx # None /\ Truthy(ctx[1].assistantId) THEN ctx[1].assistantId ELSE Null
          [] kind = "customer" ->
                IF ctx # None /\ Truthy(ctx[1].customerId) THEN ctx[1].customerId ELSE Null
          [] kind = "company" ->
                IF ctx # None /\ Truthy(ctx[1].companyId) THEN ctx[1].companyId
                ELSE IF Truthy(w.app.settings[1].companyId) THEN w.app.settings[1].companyId
                ELSE Null

\* inspectAssistant / inspectCustomer / inspectCompany up to the await.
inspectStart(w, kind) ==
    LET target == InspectTarget(w, kind)
    IN  IF target = Null THEN w
        ELSE [w EXCEPT
                !.chat.inspectLoading = TRUE,
                !.chat.inspectError = Null,
                !.net.inspects = Append(@, [kind |-> kind, target |-> target,
                                            inst |-> w.clock.inst])]

\* The title the inspector gives a lookup's result.
InspectTitle(kind, target) ==
    (CASE kind = "company" -> "companies"
       [] kind = "customer" -> "customers"
       [] kind = "assistant" -> "assistants") \o ": " \o target

\* Lookups without their `finally`: the variant C20 is checked against.
inspectSettledNoFinally(w, req, resp) ==
    LET title == InspectTitle(req.kind, req.target)
        ok == resp.kind # "rejected" /\ resp.status >= 200 /\ resp.status <= 299
        failure ==
            IF resp.kind = "rejected" THEN "Failed to fetch"
            ELSE IF req.kind = "assistant" /\ resp.text = "garbage" THEN "Unexpected token"
            ELSE IF ~ok THEN "HTTP error"
            ELSE ""
        value == IF resp.text = "garbage" THEN "raw" ELSE IF resp.text = "empty" THEN "null" ELSE "json"
    IN  IF failure # ""
        THEN [w EXCEPT !.chat.inspectError = failure,
                       !.chat.inspected = Some([title |-> title, value |-> "error"])]
        ELSE [w EXCEPT !.chat.inspected = Some([title |-> title, value |-> value]),
                       !.chat.inspectLoading = FALSE]

\* inspectAssistant / inspectCustomer / inspectCompany after the fetch: the
\* assistant lookup parses the body before it looks at the status, the other
\* two look at the status first and wrap a body that is not JSON as raw text.
inspectSettled(w, req, resp) ==
    LET title == InspectTitle(req.kind, req.target)
        ok == resp.kind # "rejected" /\ resp.status >= 200 /\ resp.status <= 299
        failure ==
            IF resp.kind = "rejected" THEN "Failed to fetch"
            ELSE IF req.kind = "assistant" /\ resp.text = "garbage" THEN "Unexpected token"
            ELSE IF ~ok THEN "HTTP error"
            ELSE ""
        value == IF resp.text = "garbage" THEN "raw" ELSE IF resp.text = "empty" THEN "null" ELSE "json"
        done == IF failure # ""
                THEN [w EXCEPT !.chat.inspectError = failure,
                               !.chat.inspected = Some([title |-> title, value |-> "error"])]
                ELSE [w EXCEPT !.chat.inspected = Some([title |-> title, value |-> value])]
    IN  [done EXCEPT !.chat.inspectLoading = FALSE]

----------------------------------------------------------------------------
(* Chat.tsx: the push channel's onmessage, and the message click           *)

\* An es.onmessage that does not look at msg.type: the variant C38 is
\* checked against.
onmessageOfAnyType(w, tid, ev) ==
    LET text == Trim(ev.text)
        now == w.clock.now
        lastRef == w.refs.lastOpenMsg
    IN  IF ev.form # "object" THEN w
        ELSE IF ev.text = Undefined \/ text = "" THEN w
        ELSE IF /\ lastRef # None
                /\ lastRef[1].threadId = tid
                /\ lastRef[1].text = text
                /\ now - lastRef[1].ts < SseDedupMs
        THEN w
        ELSE Fresh([w EXCEPT
                !.refs.lastOpenMsg = Some([threadId |-> tid, text |-> text, ts |-> now, at |-> now]),
                !.chat.messages = Append(@, ChatMessage(uuid(w), "assistant", text, now, None))])

\* es.onmessage without the lastOpenMsgRef test: the variant C7 is checked
\* against.
onmessageAlways(w, tid, ev) ==
    LET text == Trim(ev.text)
        now == w.clock.now
    IN  IF ev.form # "object" THEN w
        ELSE IF ev.type # "open_message" \/ ev.text = Undefined \/ text = "" THEN w
        ELSE Fresh([w EXCEPT
                !.refs.lastOpenMsg = Some([threadId |-> tid, text |-> text, ts |-> now, at |-> now]),
                !.chat.messages = Append(@, ChatMessage(uuid(w), "assistant", text, now, None))])

\* An es.onmessage that puts the pushed message first in the list: the
\* variant C17 is checked against.
onmessagePrepending(w, tid, ev) ==
    LET text == Trim(ev.text)
        now == w.clock.now
        lastRef == w.refs.lastOpenMsg
    IN  IF ev.form # "object" THEN w
        ELSE IF ev.type # "open_message" \/ ev.text = Undefined \/ text = "" THEN w
        ELSE IF /\ lastRef # None
                /\ lastRef[1].threadId = tid
                /\ lastRef[1].text = text
                /\ now - lastRef[1].ts < SseDedupMs
        THEN w
        ELSE Fresh([w EXCEPT
                !.refs.lastOpenMsg = Some([threadId |-> tid, text |-> text, ts |-> now, at |-> now]),
                !.chat.messages = <<ChatMessage(uuid(w), "assistant", text, now, None)>> \o @])

\* es.onmessage of the connection opened for thread `tid`: an open_message
\* event with non-blank text is appended, unless lastOpenMsgRef holds the
\* same thread and text with a timestamp under SseDedupMs old.
onmessage(w, tid, ev) ==
    LET text == Trim(ev.text)
        now == w.clock.now
        lastRef == w.refs.lastOpenMsg
    IN  IF ev.form # "object" THEN w
        ELSE IF ev.type # "open_message" \/ ev.text = Undefined \/ text = "" THEN w
        ELSE IF /\ lastRef # None
                /\ lastRef[1].threadId = tid
                /\ lastRef[1].text = text
                /\ now - lastRef[1].ts < SseDedupMs
        THEN w
        ELSE Fresh([w EXCEPT
                !.refs.lastOpenMsg = Some([threadId |-> tid, text |-> text, ts |-> now, at |-> now]),
                !.chat.messages = Append(@, ChatMessage(uuid(w), "assistant", text, now, None))])

\* The bubble's onClick.
selectMessage(w, id) ==
    [w EXCEPT !.chat.selectedId = Some(id), !.chat.inspected = None, !.chat.inspectError = Null]

----------------------------------------------------------------------------
(* App.tsx and Onboarding.tsx                                              *)

\* Onboarding's own setThreadIdInLocation: always replaces the history
\* entry and dispatches nothing.
onboardingSetThreadIdInLocation(w, threadId) ==
    [w EXCEPT !.url = [thread_id |-> IF threadId # Null /\ Trim(threadId) # "" THEN Trim(threadId)
                                     ELSE Null,
                       threadId |-> Null]]

\* App's onStart: the settings are saved and become App's state, so Chat
\* mounts.
onStart(w, s) ==
    MountChat([w EXCEPT !.app.storage = saveSettings(@, s), !.app.settings = Some(s)])

\* An onReset that leaves the stored settings in place: the variant C10 is
\* checked against.
onResetKeepingStorage(w) ==
    UnmountChat([w EXCEPT !.app.settings = None])

\* App's onReset: the stored settings are removed and App's state cleared,
\* so Chat unmounts and Onboarding shows.
onReset(w) ==
    UnmountChat([w EXCEPT !.app.storage = clearSettings(@), !.app.settings = None])

----------------------------------------------------------------------------
(* The inputs the model draws from.                                        *)

Settings(company, phone, name, base) ==
    [companyId |-> company, customerPhone |-> phone, customerName |-> name, apiBaseUrl |-> base]

\* What Onboarding can pass to onStart.
StartSettings ==
    {Settings("co1", "5511999999999", Undefined, ""),
     Settings("co2", "11999999", "Ana", "https://api.zibb.com.br")}

\* The URLs the page is opened at: without a thread, with ?thread_id=, and
\* with the legacy ?threadId=.
Urls ==
    {[thread_id |-> Null, threadId |-> Null],
     [thread_id |-> "T1", threadId |-> Null],
     [thread_id |-> Null, threadId |-> "T1"]}

Drafts == {"", " ", " hi "}

Data(tid, assistant, command, action) ==
    Some([thread_id |-> tid, assistant_id |-> assistant, customer_id |-> Undefined,
          company_id |-> Undefined, command |-> command, action |-> action])

Step(name, message, start) == [name |-> name, message |-> message, start |-> start]

StepLists ==
    <<<<>>,
      <<Step("tool_open_message.search", " wait ", Some(0))>>,
      <<Step("llm.call", "x", None),
        Step("tool_open_message.search", "wait", Some(NaN)),
        Step("assistant_open_message.greet", "hello", Some(0)),
        Step("tool_open_message.search", " ", None)>>>>

Body(data, steps) ==
    [success |-> TRUE, error |-> Undefined, answer |-> "pong", data |-> data, steps |-> steps]

FailedBody ==
    [success |-> FALSE, error |-> "backend said no", answer |-> "", data |-> None, steps |-> <<>>]

Http(status, json, body) == [kind |-> "http", status |-> status, json |-> json, body |-> body]

\* What can come back to the POST of sendMessage.
SendResponses ==
    {[kind |-> "rejected"],
     Http(200, FALSE, FailedBody),
     Http(500, TRUE, Body(None, <<>>)),
     Http(200, TRUE, FailedBody),
     Http(200, TRUE, Body(None, StepLists[1])),
     Http(200, TRUE, Body(Data("T1", "A1", Undefined, Undefined), StepLists[2])),
     Http(200, TRUE, Body(Data("T2", "A1", Undefined, Undefined), StepLists[3])),
     Http(200, TRUE, Body(Data("T2", Undefined, Undefined, Undefined), StepLists[1])),
     Http(200, TRUE, Body(Data("T1", "A1", "#close", Undefined), StepLists[2])),
     Http(200, TRUE, Body(Data(Undefined, Undefined, Undefined, "delete_user"), StepLists[1]))}

Row(input, output, created, replied, assistant) ==
    [input |-> input, output |-> output, created_at |-> created, replied_at |-> replied,
     assistant_id |-> assistant]

History(tid, rows) ==
    [thread |-> [id |-> tid, customer_id |-> "cu1", company_id |-> "co1"], messages |-> rows]

Get(status, text, body) == [kind |-> "http", status |-> status, text |-> text, body |-> body]

\* What can come back to GET /v1/threads/{tid}/messages.
HistoryResponses(tid) ==
    {Get(404, "json", History(tid, <<>>)),
     Get(200, "garbage", History(tid, <<>>)),
     Get(200, "json", History(tid, <<Row("q1", "a1", Some(0), Some(TickMs), "A1"),
                                     Row(" ", "a2", Some(NaN), None, Undefined)>>))}

\* The request failed, or its body is not JSON.
Bad(resp) ==
    \/ resp.kind = "rejected"
    \/ ~(resp.status >= 200 /\ resp.status <= 299)
    \/ resp.text = "garbage"

\* What can come back to an inspector lookup.
InspectResponses ==
    {[kind |-> "rejected"],
     Get(200, "garbage", History("", <<>>)),
     Get(200, "json", History("", <<>>))}

Event(form, type, text) == [form |-> form, type |-> type, text |-> text]

\* What the push channel can deliver: data that is empty, that JSON.parse
\* rejects, that parses to null or to a number, and objects.
PushEvents ==
    {Event("empty", Undefined, Undefined),
     Event("garbage", Undefined, Undefined),
     Event("null", Undefined, Undefined),
     Event("number", Undefined, Undefined),
     Event("object", "ping", "wait"),
     Event("object", "open_message", " "),
     Event("object", "open_message", " wait "),
     Event("object", "open_message", "hello")}

----------------------------------------------------------------------------
(* The state machine.                                                      *)

SetMax(S) == CHOOSE x \in S : \A y \in S : y <= x

\* The ids the state still holds.
IdsInUse(w) ==
    {w.chat.messages[i].id : i \in 1..Len(w.chat.messages)}
    \cup {w.net.sends[i].userMsg.id : i \in 1..Len(w.net.sends)}
    \cup {c.id : c \in w.conns}
    \cup {o[1] : o \in {w.chat.selectedId, w.refs.sse, w.eff.es} \ {None}}

\* uuid() only has to differ from the ids still held: the counter restarts
\* above them.
Compact(w) == [w EXCEPT !.clock.nextId = 1 + SetMax(IdsInUse(w) \cup {0})]

\* A step to w, taken while it starts no more than MaxLoads history loads.
Do(w, l) ==
    \E next \in {Compact(w)} :
        /\ next.used.loads <= MaxLoads
        /\ Becomes(next)
        /\ last' = l
        /\ UNCHANGED <<probe, onboarding, tree>>

\* A gesture of the user or an event of the environment: the model follows
\* at most MaxEvents of them.
CanAct == used.events < MaxEvents

Act(w, l) == Do([w EXCEPT !.used.events = @ + 1], l)

RemoveAt(seq, i) == SubSeq(seq, 1, i - 1) \o SubSeq(seq, i + 1, Len(seq))

NoProbe == [fn |-> "none"]

\* No JsonTree is looked at.
NoTree == [shown |-> FALSE]

\* The company list while the form's loader is left out of the picture.
NoForm ==
    [apiEnv |-> "DEV", companies |-> <<>>, companiesLoading |-> FALSE, companiesError |-> Null,
     requests |-> {}, issued |-> 0,
     companyId |-> "", customerPhone |-> "", customerName |-> "", startError |-> Null]

\* The page is opened: App reads local storage, and Chat mounts at once when
\* settings were stored.
Init ==
    \E storage \in {None, saveSettings(None, Settings("co1", "5511999999999", Undefined, ""))},
       u \in Urls :
        LET w0 == [app |-> [storage |-> storage, saved |-> loadSettings(storage),
                            settings |-> loadSettings(storage), starting |-> FALSE],
                   url |-> u,
                   chat |-> NoChat,
                   refs |-> InitialRefs,
                   eff |-> InitialEff,
                   conns |-> {},
                   net |-> [sends |-> <<>>, loads |-> <<>>, inspects |-> <<>>],
                   clock |-> [now |-> 0, nextId |-> 1, inst |-> 0],
                   used |-> [events |-> 0, loads |-> 0, sends |-> 0, push |-> 0, popstate |-> 0, inspects |-> 0]]
            w == IF Mounted(w0) THEN MountChat(w0) ELSE w0
        IN  /\ app = w.app /\ url = w.url /\ chat = w.chat /\ refs = w.refs /\ eff = w.eff
            /\ conns = w.conns /\ net = w.net /\ clock = w.clock /\ used = w.used
            /\ last = [op |-> "init"]
            /\ probe = NoProbe
            /\ onboarding = NoForm
            /\ tree = NoTree

\* Time passes.
Tick ==
    /\ CanAct
    /\ clock.now < MaxTicks * TickMs
    /\ Act([World EXCEPT !.clock.now = @ + TickMs], [op |-> "tick"])

\* The user edits the composer.
TypeDraft ==
    /\ CanAct
    /\ Mounted(World)
    /\ \E d \in Drafts :
        /\ d # chat.draft
        /\ Act([World EXCEPT !.chat.draft = d], [op |-> "type"])

\* Enter in the composer, or a click on Enviar (which is disabled while
\* loading or for a blank draft; the key is not).
Send ==
    /\ CanAct
    /\ Mounted(World)
    /\ used.sends < MaxSends
    /\ LET w == onSend(World)
           accepted == w # World
       IN  Act(IF accepted THEN [w EXCEPT !.used.sends = @ + 1] ELSE w,
              [op |-> "onSend", accepted |-> accepted])

\* The POST of a send settles.
SendDone ==
    \E i \in 1..Len(net.sends), resp \in SendResponses :
        LET req == net.sends[i]
            res == sendMessage(resp)
        IN  /\ Mounted(World) /\ req.inst = clock.inst
            /\ \E w \in {onSendSettled([World EXCEPT !.net.sends = RemoveAt(@, i)], req, resp)} :
               Do(Commit(w),
                  [op |-> "sendDone", threw |-> res.threw,
                   close |-> ~res.threw /\ IsCloseResponse(res.response[1]),
                   respTid |-> IF res.threw THEN Null ELSE ResponseThreadId(res.response[1]),
                   prev |-> req.prevThreadId,
                   tracked |-> req.tracked,
                   failure |-> IF resp.kind = "rejected" THEN "rejected"
                               ELSE IF ~resp.json THEN "unparseable"
                               ELSE IF resp.status # 200 THEN "status"
                               ELSE IF resp.body.success = FALSE THEN "unsuccessful"
                               ELSE "none",
                   user |-> req.userMsg])

\* The GET of a thread history settles.
LoadDone ==
    \E i \in 1..Len(net.loads) :
        \E resp \in HistoryResponses(net.loads[i].tid) :
            LET req == net.loads[i]
                w0 == [World EXCEPT !.net.loads = RemoveAt(@, i)]
                own == Mounted(World) /\ req.inst = clock.inst
                w == IF own THEN loadThreadToChatSettled(w0, req.tid, resp)
                     ELSE loadThreadToChatOrphan(w0, req.tid, resp)
            IN  Do(Commit(w), [op |-> "loadDone", tid |-> req.tid, own |-> own,
                               threw |-> ReadJson(resp).threw, bad |-> Bad(resp),
                               rows |-> IF ReadJson(resp).json = None THEN <<>>
                                        ELSE ReadJson(resp).json[1].messages])

\* A click on the thread pill, shown when the active context has a thread
\* id and enabled while no inspector lookup is loading.
ThreadClick ==
    /\ CanAct
    /\ Mounted(World)
    /\ used.inspects < MaxInspects
    /\ ~chat.inspectLoading
    /\ activeCtx(chat) # None
    /\ Truthy(activeCtx(chat)[1].threadId)
    /\ Act(Commit([inspectThread(World) EXCEPT !.used.inspects = @ + 1]), [op |-> "inspectThread"])

\* A click on the company, customer or assistant pill.
InspectClick ==
    /\ CanAct
    /\ Mounted(World)
    /\ used.inspects < MaxInspects
    /\ ~chat.inspectLoading
    /\ \E kind \in {"company", "customer", "assistant"} :
        /\ InspectTarget(World, kind) # Null
        /\ Act([inspectStart(World, kind) EXCEPT !.used.inspects = @ + 1],
              [op |-> "inspect"])

\* An inspector lookup settles.
InspectDone ==
    \E i \in 1..Len(net.inspects), resp \in InspectResponses :
        Do(inspectSettled([World EXCEPT !.net.inspects = RemoveAt(@, i)], net.inspects[i], resp),
           [op |-> "inspectDone", kind |-> net.inspects[i].kind, target |-> net.inspects[i].target,
            bad |-> Bad(resp)])

\* The push channel delivers an event on an open connection.
Push ==
    /\ CanAct
    /\ used.push < MaxPush
    /\ \E c \in conns, ev \in PushEvents :
        Act([onmessage(World, c.tid, ev) EXCEPT !.used.push = @ + 1],
           [op |-> "push", tid |-> c.tid, lastRef |-> refs.lastOpenMsg,
            text |-> IF ev.form = "object" /\ ev.type = "open_message" THEN ev.text ELSE Null])

\* Back or forward in the session history: the URL is another entry's and
\* popstate fires.
Popstate ==
    /\ CanAct
    /\ used.popstate < MaxPopstate
    /\ \E tid \in {Null, "T2"} :
        LET w0 == [World EXCEPT !.url = [thread_id |-> tid, threadId |-> Null],
                                !.used.popstate = @ + 1]
        IN  Act(IF Mounted(w0) THEN Commit(syncFromUrl(w0, "popstate")) ELSE w0,
               [op |-> "popstate"])

\* A click on a message bubble.
Select ==
    /\ CanAct
    /\ Mounted(World)
    /\ \E i \in 1..Len(chat.messages) :
        /\ chat.selectedId # Some(chat.messages[i].id) \/ chat.inspected # None
        /\ Act(selectMessage(World, chat.messages[i].id), [op |-> "select"])

\* Onboarding: a click on "Iniciar conversa" starts the open-thread lookup.
StartClick ==
    /\ CanAct
    /\ ~Mounted(World)
    /\ ~app.starting
    /\ clock.inst < MaxMounts
    /\ Act([World EXCEPT !.app.starting = TRUE], [op |-> "startClick"])

\* Onboarding: the lookup settles (tid is Null when it found no open thread
\* or failed), the URL is written and onStart is called.
StartResolved ==
    /\ app.starting
    /\ \E tid \in {Null} \cup ThreadIds, s \in StartSettings :
        Do(onStart(onboardingSetThreadIdInLocation([World EXCEPT !.app.starting = FALSE], tid), s),
           [op |-> "start"])

\* "Trocar dados", disabled while a send is loading.
Reset ==
    /\ CanAct
    /\ Mounted(World)
    /\ ~chat.loading
    /\ Act(onReset(World), [op |-> "reset"])

Next ==
    \/ Tick
    \/ TypeDraft
    \/ Send
    \/ SendDone
    \/ LoadDone
    \/ ThreadClick
    \/ InspectClick
    \/ InspectDone
    \/ Push
    \/ Popstate
    \/ Select
    \/ StartClick
    \/ StartResolved
    \/ Reset

Spec == Init /\ [][Next]_vars

----------------------------------------------------------------------------
(* storage.ts taken alone: saves, clears and loads in any order, on a      *)
(* storage that holds nothing, an empty text, a text JSON.parse rejects,   *)
(* or a saved object.  probe keeps the storage, the last write and what    *)
(* the last load returned.                                                 *)

SettingsObjects ==
    {Settings(c, p, n, b) : c \in {"co1", " "}, p \in {"5511999999999", ""},
                            n \in {Undefined, "Ana", ""}, b \in {"", "https://api.zibb.com.br"}}

StoredTexts ==
    {None, Some(<<>>), Some(<<<<"companyId">>>>),
     Some(JSONstringify(Settings("co1", "5511999999999", Undefined, "")))}

InitStorage ==
    /\ \E st \in StoredTexts :
        probe = [fn |-> "open", storage |-> st, written |-> None, ops |-> 0]
    /\ app = [storage |-> None, saved |-> None, settings |-> None, starting |-> FALSE]
    /\ url = [thread_id |-> Null, threadId |-> Null]
    /\ chat = NoChat
    /\ refs = InitialRefs
    /\ eff = InitialEff
    /\ conns = {}
    /\ net = [sends |-> <<>>, loads |-> <<>>, inspects |-> <<>>]
    /\ clock = [now |-> 0, nextId |-> 1, inst |-> 0]
    /\ used = [events |-> 0, loads |-> 0, sends |-> 0, push |-> 0, popstate |-> 0, inspects |-> 0]
    /\ last = [op |-> "init"]
    /\ onboarding = NoForm
    /\ tree = NoTree

StorageSave ==
    /\ probe.ops < MaxStorageOps
    /\ \E s \in SettingsObjects :
        probe' = [fn |-> "save", storage |-> saveSettings(probe.storage, s),
                  written |-> Some(s), ops |-> probe.ops + 1]
    /\ UNCHANGED <<vars_program, last>>

StorageClear ==
    /\ probe.ops < MaxStorageOps
    /\ probe' = [fn |-> "clear", storage |-> clearSettings(probe.storage),
                 written |-> None, ops |-> probe.ops + 1]
    /\ UNCHANGED <<vars_program, last>>

StorageLoad ==
    /\ probe.fn \in {"save", "clear", "open"}
    /\ probe' = [fn |-> "load", storage |-> probe.storage, written |-> probe.written,
                 ops |-> probe.ops, after |-> probe.fn,
                 returned |-> loadSettings(probe.storage)]
    /\ UNCHANGED <<vars_program, last>>

NextStorage ==
    \/ StorageSave
    \/ StorageClear
    \/ StorageLoad

SpecStorage == InitStorage /\ [][NextStorage]_vars

----------------------------------------------------------------------------
(* setThreadIdInLocation of Chat.tsx applied to a location, call after     *)
(* call.                                                                   *)

\* The locations a page is opened at: thread_id absent, set, padded or
\* blank, with or without the legacy threadId.
LocationInputs ==
    [thread_id : {Null, "T1", "T2", " T1 ", " "}, threadId : {Null, "T1"}]

\* The values setThreadIdInLocation is called with.
ThreadIdInputs == {Null, "", " ", "T1", " T1 ", "T2"}

InitLocation ==
    /\ \E u \in LocationInputs : url = u
    /\ probe = [fn |-> "location", given |-> <<>>, dispatched |-> <<>>]
    /\ app = [storage |-> None, saved |-> None, settings |-> None, starting |-> FALSE]
    /\ chat = NoChat
    /\ refs = InitialRefs
    /\ eff = InitialEff
    /\ conns = {}
    /\ net = [sends |-> <<>>, loads |-> <<>>, inspects |-> <<>>]
    /\ clock = [now |-> 0, nextId |-> 1, inst |-> 0]
    /\ used = [events |-> 0, loads |-> 0, sends |-> 0, push |-> 0, popstate |-> 0, inspects |-> 0]
    /\ last = [op |-> "init"]
    /\ onboarding = NoForm
    /\ tree = NoTree

\* One call of setThreadIdInLocation; the probe keeps the values given and,
\* call by call, whether replaceState and dispatchEvent were reached.
SetLocation ==
    /\ Len(probe.given) < MaxLocationCalls
    /\ \E threadId \in ThreadIdInputs :
        /\ Becomes(setThreadIdInLocation(World, threadId))
        /\ probe' = [probe EXCEPT
                        !.given = Append(@, threadId),
                        !.dispatched = Append(@, rewriteLocation(url, threadId).replaced)]
    /\ UNCHANGED <<last, onboarding, tree>>

NextLocation == SetLocation

SpecLocation == InitLocation /\ [][NextLocation]_vars

----------------------------------------------------------------------------
(* The claims.                                                             *)

\* The current Chat's history loads in flight.
OwnLoads == SelectSeq(net.loads, LAMBDA l : l.inst = clock.inst)

\* The list a close or a thread switch leaves: the banner, the sent user
\* message, open messages (assistant messages without a trace), the reply
\* (an assistant message with the trace of a response that was ok).
ReplacedList(msgs, bannerText, userMsg) ==
    /\ Len(msgs) >= 3
    /\ msgs[1].role = "system" /\ msgs[1].text = bannerText
    /\ msgs[2] = userMsg
    /\ \A i \in 3..(Len(msgs) - 1) : msgs[i].role = "assistant" /\ msgs[i].trace = None
    /\ msgs[Len(msgs)].role = "assistant"
    /\ msgs[Len(msgs)].trace # None
    /\ msgs[Len(msgs)].trace[1].ok

\* C1: when a successful send's response (not a close) carries a thread id
\* T2, and at the start of the send the URL's and the tracked thread id were
\* both a different T1, then after the response the list is the
\* 'Thread: T2' banner, the sent user message, the recovered open messages
\* and the reply, and nothing else.
C1_SwitchReplacesList ==
    (/\ last.op = "sendDone"
     /\ ~last.threw
     /\ ~last.close
     /\ last.respTid # Null
     /\ last.prev # Null
     /\ last.tracked = last.prev
     /\ last.prev # last.respTid)
    => ReplacedList(chat.messages, ThreadText(last.respTid), last.user)

\* C2: mounting with a thread id T in the URL issues exactly one history
\* fetch, for T; a mount never issues more than one; and no effect re-run
\* issues a history fetch.
C2_OneFetchPerMount ==
    /\ \A i \in 1..Len(net.loads) : net.loads[i].cause # "rerun"
    /\ Len(SelectSeq(OwnLoads, LAMBDA l : l.cause = "mount")) <= 1
    /\ (/\ last.op \in {"init", "start"}
        /\ Mounted(World)
        /\ getThreadIdFromLocation(url) # Null)
       => /\ Len(OwnLoads) = 1
          /\ OwnLoads[1].tid = getThreadIdFromLocation(url)
          /\ OwnLoads[1].cause = "mount"

\* C2's case: the history of T1 was loaded, the effects ran again with the
\* new tracked thread id, the URL still names T1 and nothing is in flight.
C2_Witness ==
    /\ Mounted(World)
    /\ last.op = "loadDone" /\ ~last.threw /\ last.own
    /\ chat.loadedThreadId = "T1"
    /\ eff.loadedThreadId = "T1"
    /\ url.thread_id = "T1"
    /\ net.loads = <<>>

\* C3: after a send whose response signals close or delete-user, and the
\* effects it triggers, the URL has no thread id, no thread id is tracked,
\* and the list is the 'Conversa encerrada' banner, the sent user message,
\* the recovered open messages and the reply.
C3_CloseLeavesClosedList ==
    (last.op = "sendDone" /\ last.close)
    => /\ getThreadIdFromLocation(url) = Null
       /\ chat.loadedThreadId = Null
       /\ ReplacedList(chat.messages, ClosedText, last.user)

\* The failure message client.ts and onSend's catch give each kind of
\* failed send in the model's inputs.
FailureMessages ==
    [rejected |-> {"Failed to fetch"},
     unparseable |-> {"Resposta invalida (200)"},
     status |-> {"Erro HTTP 500"},
     unsuccessful |-> {"backend said no"},
     none |-> {}]

\* C4: a step that settles a failed send sets the error string to the
\* failure message, ends the loading state, and appends to the list exactly
\* one assistant message, whose trace has response.ok false; the user
\* message, where the list still holds it, is before it.
C4_FailedSendSurfaced ==
    [][(last'.op = "sendDone" /\ last'.threw) =>
        /\ chat'.error \in FailureMessages[last'.failure]
        /\ ~chat'.loading
        /\ Len(chat'.messages) = Len(chat.messages) + 1
        /\ SubSeq(chat'.messages, 1, Len(chat.messages)) = chat.messages
        /\ LET m == chat'.messages[Len(chat'.messages)]
           IN  /\ m.role = "assistant"
               /\ m.text = "Erro ao chamar o backend: " \o chat'.error
               /\ m.trace # None
               /\ ~m.trace[1].ok
        /\ \A i \in 1..Len(chat'.messages) :
            chat'.messages[i] = last'.user => i < Len(chat'.messages)
       ]_vars

\* C4's case: a failed send has settled and its synthetic message is the
\* last of the list, after the user message.
C4_Witness ==
    /\ last.op = "sendDone" /\ last.threw
    /\ Len(chat.messages) >= 2
    /\ chat.messages[Len(chat.messages) - 1] = last.user
    /\ chat.messages[Len(chat.messages)].trace # None
    /\ ~chat.messages[Len(chat.messages)].trace[1].ok

\* C5 as stated: at most one request of the chat view (send, inspector
\* lookup, history load) is in flight.
C5_OneRequestInFlight ==
    Len(net.sends) + Len(net.inspects) + Len(OwnLoads) <= 1

\* C5: at most one message send of the chat view is in flight.
C5_OneSendInFlight ==
    Len(net.sends) <= 1

\* C5's case: a second send was asked for while the first was in flight,
\* and was ignored.
C5_Witness ==
    /\ last.op = "onSend" /\ ~last.accepted
    /\ Trim(chat.draft) # ""
    /\ chat.loading
    /\ Len(net.sends) = 1

\* C6: at most one push connection is open; an open one is the mounted
\* Chat's, for the tracked thread id or, with none tracked, the URL's; and
\* with no thread id, or no Chat mounted, none is open.
C6_OneChannelForTrackedThread ==
    LET tid == IF Truthy(chat.loadedThreadId) THEN chat.loadedThreadId
               ELSE getThreadIdFromLocation(url)
    IN  /\ Cardinality(conns) <= 1
        /\ \A c \in conns : Mounted(World) /\ c.inst = clock.inst /\ c.tid = tid
        /\ (~Mounted(World) \/ tid = Null) => conns = {}

\* The step is the delivery of an open_message event with non-blank text.
PushedOpenMessage ==
    /\ last'.op = "push"
    /\ last'.text \notin {Null, Undefined}
    /\ Trim(last'.text) # ""

\* The last recorded open message is of the event's thread and trimmed
\* text, and the time it holds under `field` is less than SseDedupMs ago.
RecordedWithin(field) ==
    /\ last'.lastRef # None
    /\ last'.lastRef[1].threadId = last'.tid
    /\ last'.lastRef[1].text = Trim(last'.text)
    /\ clock.now - last'.lastRef[1][field] < SseDedupMs

\* The step appends one assistant message with the event's trimmed text.
AppendsPushed ==
    /\ Len(chat'.messages) = Len(chat.messages) + 1
    /\ SubSeq(chat'.messages, 1, Len(chat.messages)) = chat.messages
    /\ chat'.messages[Len(chat'.messages)].role = "assistant"
    /\ chat'.messages[Len(chat'.messages)].text = Trim(last'.text)

\* C7 as stated: a pushed open_message with non-blank text is appended as
\* one assistant message, unless the last recorded open message has its
\* thread id and trimmed text and was recorded less than 5 s earlier; then
\* nothing is appended.
C7_PushDedupByRecordTime ==
    [][PushedOpenMessage =>
        IF RecordedWithin("at") THEN chat'.messages = chat.messages ELSE AppendsPushed]_vars

\* C7: a pushed open_message with non-blank text is appended as one
\* assistant message, unless the last recorded open message has its thread
\* id and trimmed text and a timestamp (the arrival time of a pushed
\* message, the step's start time of a recovered one) less than 5 s before
\* now; then nothing is appended.
C7_PushDedupByTimestamp ==
    [][PushedOpenMessage =>
        IF RecordedWithin("ts") THEN chat'.messages = chat.messages ELSE AppendsPushed]_vars

\* C7's case: a pushed open_message was dropped as a repetition of the last
\* recorded one.
C7_Witness ==
    /\ last.op = "push"
    /\ last.text \notin {Null, Undefined}
    /\ last.lastRef # None
    /\ last.lastRef[1].threadId = last.tid
    /\ last.lastRef[1].text = Trim(last.text)
    /\ clock.now - last.lastRef[1].ts < SseDedupMs
    /\ refs.lastOpenMsg = last.lastRef

\* C8: no history fetch is started by the chatweb:thread_id_changed event
\* of a programmatic URL rewrite, nor by the effect re-run that follows the
\* tracked thread id's update.
C8_RewriteStartsNoFetch ==
    \A i \in 1..Len(net.loads) : net.loads[i].cause \notin {"event", "rerun"}

\* C9: a load after saveSettings(s) returns s, a load after clearSettings()
\* returns null, whatever was saved or cleared before.
C9_LoadReturnsLastWrite ==
    (probe.fn = "load" /\ probe.after \in {"save", "clear"})
    => probe.returned = probe.written

\* C9's case: a load after a save that followed a clear and another save.
C9_Witness ==
    /\ probe.fn = "load"
    /\ probe.after = "save"
    /\ probe.ops = MaxStorageOps
    /\ probe.returned # None
    /\ probe.returned[1].customerName = Undefined

\* C10: Chat is shown exactly when a settings record is stored, the stored
\* record is the settings Chat uses, and after a reset nothing is stored and
\* Onboarding is shown.
C10_ChatIffStored ==
    /\ Mounted(World) <=> loadSettings(app.storage) # None
    /\ Mounted(World) => loadSettings(app.storage) = app.settings
    /\ last.op = "reset" => app.storage = None /\ ~Mounted(World)

\* C10's case: after a reset, Onboarding started Chat again with other
\* settings.
C10_Witness ==
    /\ clock.inst = 2
    /\ Mounted(World)
    /\ app.settings # app.saved

----------------------------------------------------------------------------
(* api/client.ts: the answer parser, taken alone.                          *)

\* A JSON value as the parser sees it: t is what typeof and Array.isArray
\* tell apart, s the text of a string, xs the elements of an array, o the
\* members of an object.
\* The value of an item's url member: kind tells undefined, a number, the
\* empty string, a string new URL() rejects, a relative reference and an
\* absolute URL apart; origin, path and query are the parts of the string.
Href(kind, origin, path, query) == [kind |-> kind, origin |-> origin, path |-> path, query |-> query]

NoUrl == Href("undefined", "", "", <<>>)

NoMembers == [type |-> Undefined, message |-> Undefined, url |-> NoUrl, display |-> Undefined]

JUndef == [t |-> "undefined", s |-> "", xs |-> <<>>, o |-> NoMembers]
JNull == [t |-> "null", s |-> "", xs |-> <<>>, o |-> NoMembers]
JNum == [t |-> "number", s |-> "", xs |-> <<>>, o |-> NoMembers]
JStr(x) == [t |-> "string", s |-> x, xs |-> <<>>, o |-> NoMembers]
JArr(xs) == [t |-> "array", s |-> "", xs |-> xs, o |-> NoMembers]
JObj(o) == [t |-> "object", s |-> "", xs |-> <<>>, o |-> o]

\* { type: 'text', message: x }
TextItem(x) == JObj([type |-> "text", message |-> x, url |-> NoUrl, display |-> Undefined])

\* { type: 'cta_url', url, display }
CtaItem(u, display) == JObj([type |-> "cta_url", message |-> Undefined, url |-> u, display |-> display])

\* x && typeof x === 'object': an object or an array, not null.
IsObjectLike(x) == x.t \in {"object", "array"}

\* A toAnswerItems that drops the empty strings of an array: the variant C11
\* is checked against.
toAnswerItemsNonEmpty(raw) ==
    IF raw.t = "array"
    THEN LET mapped == [i \in 1..Len(raw.xs) |->
                            IF raw.xs[i].t = "string" THEN TextItem(raw.xs[i].s) ELSE raw.xs[i]]
         IN  SelectSeq(mapped, LAMBDA x : IsObjectLike(x) /\ x # TextItem(""))
    ELSE IF raw.t = "string" /\ Trim(raw.s) # "" THEN <<TextItem(raw.s)>>
    ELSE IF raw.t = "object" THEN <<raw>>
    ELSE <<>>

\* toAnswerItems(raw): an array gives a text item per string and keeps its
\* objects; a non-blank string gives one text item; an object gives itself.
toAnswerItems(raw) ==
    IF raw.t = "array"
    THEN LET mapped == [i \in 1..Len(raw.xs) |->
                            IF raw.xs[i].t = "string" THEN TextItem(raw.xs[i].s)
                            ELSE IF IsObjectLike(raw.xs[i]) THEN raw.xs[i]
                            ELSE JNull]
         IN  SelectSeq(mapped, LAMBDA x : x # JNull)
    ELSE IF raw.t = "string" /\ Trim(raw.s) # "" THEN <<TextItem(raw.s)>>
    ELSE IF raw.t = "object" THEN <<raw>>
    ELSE <<>>

\* A reply: data (absent or present) with disparo.answer and
\* assistant_response.answer, each undefined when absent.
Reply(hasData, disparo, assistant) ==
    [hasData |-> hasData, disparo |-> disparo, assistant |-> assistant]

\* d?.disparo?.answer and d?.assistant_response?.answer
DisparoAnswer(reply) == IF reply.hasData THEN reply.disparo ELSE JUndef
AssistantAnswer(reply) == IF reply.hasData THEN reply.assistant ELSE JUndef

\* An extractDisparoItems that never looks at assistant_response: the
\* variant C12 is checked against.
extractDisparoItemsOnly(reply) == toAnswerItems(DisparoAnswer(reply))

\* An extractDisparoItems that looks at assistant_response only when
\* disparo.answer is undefined: the variant C13 is checked against.
extractDisparoItemsIfAbsent(reply) ==
    IF DisparoAnswer(reply) # JUndef THEN toAnswerItems(DisparoAnswer(reply))
    ELSE toAnswerItems(AssistantAnswer(reply))

\* extractDisparoItems(data): the items of disparo.answer when there are
\* any, else those of assistant_response.answer.
extractDisparoItems(reply) ==
    LET items == toAnswerItems(DisparoAnswer(reply))
    IN  IF Len(items) > 0 THEN items ELSE toAnswerItems(AssistantAnswer(reply))

\* The answer payloads the parser is given.
Answers ==
    {JUndef, JNull, JNum, JStr(""), JStr(" "), JStr("oi"),
     JArr(<<>>), JArr(<<JStr("oi")>>), JArr(<<JStr("tchau"), JStr(""), JStr("oi")>>),
     JArr(<<JNum, JNull>>),
     JArr(<<JStr("oi"), JNum, CtaItem(Href("absolute", "https://x", "/", <<>>), "Open")>>),
     CtaItem(Href("absolute", "https://x", "/", <<>>), "Open")}

Replies ==
    {Reply(TRUE, d, a) : d \in Answers, a \in Answers} \cup {Reply(FALSE, JUndef, JUndef)}

\* The program's variables while a pure function is looked at alone.
IdleAt(location) ==
    /\ app = [storage |-> None, saved |-> None, settings |-> None, starting |-> FALSE]
    /\ url = location
    /\ chat = NoChat
    /\ refs = InitialRefs
    /\ eff = InitialEff
    /\ conns = {}
    /\ net = [sends |-> <<>>, loads |-> <<>>, inspects |-> <<>>]
    /\ clock = [now |-> 0, nextId |-> 1, inst |-> 0]
    /\ used = [events |-> 0, loads |-> 0, sends |-> 0, push |-> 0, popstate |-> 0, inspects |-> 0]
    /\ last = [op |-> "init"]

Idle == IdleAt([thread_id |-> Null, threadId |-> Null])

InitParser ==
    /\ \E r \in Replies : probe = [fn |-> "reply", reply |-> r]
    /\ Idle
    /\ onboarding = NoForm
    /\ tree = NoTree

ParseReply ==
    /\ probe.fn = "reply"
    /\ probe' = [fn |-> "extractDisparoItems", reply |-> probe.reply,
                 items |-> extractDisparoItems(probe.reply)]
    /\ UNCHANGED <<vars_program, last>>

NextParser == ParseReply

SpecParser == InitParser /\ [][NextParser]_vars

AllStrings(xs) == \A i \in 1..Len(xs) : xs[i].t = "string"

\* C11: when data.disparo.answer is a non-empty array of strings, the
\* parser yields one text segment per string, with that string as its
\* message, in the array's order.
C11_SegmentPerString ==
    (/\ probe.fn = "extractDisparoItems"
     /\ DisparoAnswer(probe.reply).t = "array"
     /\ Len(DisparoAnswer(probe.reply).xs) > 0
     /\ AllStrings(DisparoAnswer(probe.reply).xs))
    => probe.items = [i \in 1..Len(DisparoAnswer(probe.reply).xs) |->
                        TextItem(DisparoAnswer(probe.reply).xs[i].s)]

\* C11's case: an array of three strings, one of them empty, was parsed.
C11_Witness ==
    /\ probe.fn = "extractDisparoItems"
    /\ DisparoAnswer(probe.reply) = JArr(<<JStr("tchau"), JStr(""), JStr("oi")>>)
    /\ Len(probe.items) = 3
    /\ probe.items[2] = TextItem("")

\* C12 as stated: with no data.disparo.answer and a string s as
\* data.assistant_response.answer, the parser yields exactly one text
\* segment with message s.
C12_StringAnswerOneSegment ==
    (/\ probe.fn = "extractDisparoItems"
     /\ DisparoAnswer(probe.reply) = JUndef
     /\ AssistantAnswer(probe.reply).t = "string")
    => probe.items = <<TextItem(AssistantAnswer(probe.reply).s)>>

\* C12: with no data.disparo.answer and a string s that is not blank as
\* data.assistant_response.answer, the parser yields exactly one text
\* segment with message s; for a blank s it yields no segment.
C12_NonBlankStringAnswerOneSegment ==
    (/\ probe.fn = "extractDisparoItems"
     /\ DisparoAnswer(probe.reply) = JUndef
     /\ AssistantAnswer(probe.reply).t = "string")
    => probe.items = IF Trim(AssistantAnswer(probe.reply).s) # ""
                     THEN <<TextItem(AssistantAnswer(probe.reply).s)>>
                     ELSE <<>>

\* C12's case: a reply without disparo.answer whose assistant_response
\* answer is the string "oi" was parsed.
C12_Witness ==
    /\ probe.fn = "extractDisparoItems"
    /\ probe.reply.hasData
    /\ DisparoAnswer(probe.reply) = JUndef
    /\ AssistantAnswer(probe.reply) = JStr("oi")
    /\ probe.items = <<TextItem("oi")>>

\* C13 as stated: the segments come from data.disparo.answer whenever that
\* field is present, and from data.assistant_response.answer only when it
\* is absent.
C13_FallbackOnlyIfAbsent ==
    probe.fn = "extractDisparoItems"
    => probe.items = IF DisparoAnswer(probe.reply) # JUndef
                     THEN toAnswerItems(DisparoAnswer(probe.reply))
                     ELSE toAnswerItems(AssistantAnswer(probe.reply))

\* C13: the segments come from data.disparo.answer whenever it yields at
\* least one segment, and from data.assistant_response.answer whenever it
\* yields none (absent, null, a blank string, a number, an empty array or an
\* array without strings and objects).
C13_FallbackIfNoSegments ==
    probe.fn = "extractDisparoItems"
    => probe.items = IF toAnswerItems(DisparoAnswer(probe.reply)) # <<>>
                     THEN toAnswerItems(DisparoAnswer(probe.reply))
                     ELSE toAnswerItems(AssistantAnswer(probe.reply))

\* C13's case: disparo.answer is present and empty, and the segment comes
\* from assistant_response.answer.
C13_Witness ==
    /\ probe.fn = "extractDisparoItems"
    /\ DisparoAnswer(probe.reply) = JArr(<<>>)
    /\ AssistantAnswer(probe.reply) = JStr("oi")
    /\ probe.items = <<TextItem("oi")>>

----------------------------------------------------------------------------
(* Chat.tsx: how an answer segment is rendered.                            *)

\* window.location.origin
Origin == "http://localhost:5173"

\* url.searchParams.has(name)
HasParam(query, name) == \E i \in 1..Len(query) : query[i][1] = name

\* url.searchParams.get(name): the value of the first parameter of that name.
GetParam(query, name) ==
    IF HasParam(query, name)
    THEN query[CHOOSE i \in 1..Len(query) :
                  /\ query[i][1] = name
                  /\ \A j \in 1..(i - 1) : query[j][1] # name][2]
    ELSE Null

\* new URL(href, base).toString(): a relative reference is resolved against
\* the page's origin and an empty path is written "/".
URLtoString(href) ==
    Href("absolute",
         IF href.kind = "relative" THEN Origin ELSE href.origin,
         IF href.path = "" THEN "/" ELSE href.path,
         href.query)

\* A withRedirectUrlParam that always sets the parameter: the variant C14
\* is checked against.
withRedirectUrlParamAlways(href, redirectUrl) ==
    IF href.kind \in {"undefined", "number", "empty"} THEN href
    ELSE IF href.kind = "invalid" THEN href
    ELSE LET u == URLtoString(href)
         IN  [u EXCEPT !.query =
                 SelectSeq(u.query, LAMBDA kv : kv[1] # "redirect_url")
                     \o <<(<<"redirect_url", redirectUrl>>)>>]

\* withRedirectUrlParam(href, redirectUrl): href parsed and written back,
\* with redirect_url appended unless it has one; href itself when it is
\* empty or new URL() throws.
withRedirectUrlParam(href, redirectUrl) ==
    IF href.kind \in {"undefined", "number", "empty"} THEN href
    ELSE IF href.kind = "invalid" THEN href
    ELSE LET u == URLtoString(href)
         IN  IF HasParam(u.query, "redirect_url") THEN u
             ELSE [u EXCEPT !.query = Append(u.query, <<"redirect_url", redirectUrl>>)]

\* t.startsWith('{') || t.startsWith('['), on the texts the model draws.
StartsWithBracket(t) ==
    t \in {"{oi", "{\"a\":1}", "[]", "{\"type\"",
           "{\"type\":\"text\",\"message\":\"oi\"}",
           "[\"type\",\"oi\"]",
           "[{\"type\":\"cta_url\",\"url\":\"/pay\"},1]",
           "{\"type\":\"text\",\"message\":\"[\\\"type\\\",\\\"oi\\\"]\"}"}

\* t.includes('"type"'), on the texts the model draws.
IncludesType(t) ==
    t \in {"{\"type\"", "\"type\"",
           "{\"type\":\"text\",\"message\":\"oi\"}",
           "[\"type\",\"oi\"]",
           "[{\"type\":\"cta_url\",\"url\":\"/pay\"},1]",
           "{\"type\":\"text\",\"message\":\"[\\\"type\\\",\\\"oi\\\"]\"}"}

\* JSON.parse(t) on the texts the model draws: ok is FALSE when it throws.
JSONparseText(t) ==
    CASE t = "{\"a\":1}" -> [ok |-> TRUE, value |-> JObj(NoMembers)]
      [] t = "[]" -> [ok |-> TRUE, value |-> JArr(<<>>)]
      [] t = "\"type\"" -> [ok |-> TRUE, value |-> JStr("type")]
      [] t = "{\"type\":\"text\",\"message\":\"oi\"}" -> [ok |-> TRUE, value |-> TextItem("oi")]
      [] t = "[\"type\",\"oi\"]" -> [ok |-> TRUE, value |-> JArr(<<JStr("type"), JStr("oi")>>)]
      [] t = "[{\"type\":\"cta_url\",\"url\":\"/pay\"},1]" ->
            [ok |-> TRUE,
             value |-> JArr(<<CtaItem(Href("relative", "", "/pay", <<>>), Undefined), JNum>>)]
      [] t = "{\"type\":\"text\",\"message\":\"[\\\"type\\\",\\\"oi\\\"]\"}" ->
            [ok |-> TRUE, value |-> TextItem("[\"type\",\"oi\"]")]
      [] OTHER -> [ok |-> FALSE, value |-> JNull]

\* What tryParseDisparoItemsFromText gives back: raised when an exception
\* leaves it, isNull for null, else the items.
Parsed(raised, isNull, items) == [raised |-> raised, isNull |-> isNull, items |-> items]

\* A tryParseDisparoItemsFromText without its try/catch and without the
\* test on the length of out: the variant C15 is checked against.
tryParseDisparoItemsFromTextBare(text) ==
    LET t == Trim(text)
        p == JSONparseText(t)
    IN  IF text = "" \/ text = Undefined THEN Parsed(FALSE, TRUE, <<>>)
        ELSE IF t = "" THEN Parsed(FALSE, TRUE, <<>>)
        ELSE IF ~StartsWithBracket(t) THEN Parsed(FALSE, TRUE, <<>>)
        ELSE IF ~p.ok THEN Parsed(TRUE, FALSE, <<>>)
        ELSE IF p.value.t = "array" THEN Parsed(FALSE, FALSE, toAnswerItems(p.value))
        ELSE Parsed(FALSE, FALSE, <<p.value>>)

\* tryParseDisparoItemsFromText(text)
tryParseDisparoItemsFromText(text) ==
    LET t == Trim(text)
        p == JSONparseText(t)
    IN  IF text = "" \/ text = Undefined THEN Parsed(FALSE, TRUE, <<>>)
        ELSE IF t = "" THEN Parsed(FALSE, TRUE, <<>>)
        ELSE IF ~StartsWithBracket(t) THEN Parsed(FALSE, TRUE, <<>>)
        ELSE IF ~IncludesType(t) THEN Parsed(FALSE, TRUE, <<>>)
        ELSE IF ~p.ok THEN Parsed(FALSE, TRUE, <<>>)
        ELSE IF p.value.t = "array"
        THEN LET out == SelectSeq(
                           [i \in 1..Len(p.value.xs) |->
                               IF p.value.xs[i].t = "string" THEN TextItem(p.value.xs[i].s)
                               ELSE IF IsObjectLike(p.value.xs[i]) THEN p.value.xs[i]
                               ELSE JNull],
                           LAMBDA x : x # JNull)
             IN  IF Len(out) > 0 THEN Parsed(FALSE, FALSE, out) ELSE Parsed(FALSE, TRUE, <<>>)
        ELSE IF p.value.t = "object" THEN Parsed(FALSE, FALSE, <<p.value>>)
        ELSE Parsed(FALSE, TRUE, <<>>)

\* What an item renders as: nothing, a FormattedText of a literal text, a
\* link (with its optional text above), the item's JSON, a nested
\* MessageContent, or an exception.
Node(kind, text, href, display, item, children) ==
    [kind |-> kind, text |-> text, href |-> href, display |-> display,
     item |-> item, children |-> children]

Nothing == Node("null", "", NoUrl, "", JNull, <<>>)
FormattedText(text) == Node("FormattedText", text, NoUrl, "", JNull, <<>>)
Link(href, display, text) == Node("a", text, href, display, JNull, <<>>)
Stringified(it) == Node("JSON.stringify", "", NoUrl, "", it, <<>>)
Nested(children) == Node("MessageContent", "", NoUrl, "", JNull, children)
Raised == Node("exception", "", NoUrl, "", JNull, <<>>)

\* MessageContent({ items }), with window.location.href = redirectUrl.
RECURSIVE MessageContent(_, _)
MessageContent(items, redirectUrl) ==
    [i \in 1..Len(items) |->
        LET it == items[i]
            msg == it.o.message
            u == it.o.url
            href == IF redirectUrl # "" /\ u.kind \in {"invalid", "relative", "absolute"}
                    THEN withRedirectUrlParam(u, redirectUrl)
                    ELSE u
            display == IF it.o.display \in {Undefined, ""} THEN "Abrir link" ELSE it.o.display
            parsedItems == tryParseDisparoItemsFromText(msg)
        IN  IF ~IsObjectLike(it) THEN Nothing
            ELSE IF it.o.type = "text"
            THEN IF msg # Undefined /\ msg # ""
                 THEN IF parsedItems.raised THEN Raised
                      ELSE IF ~parsedItems.isNull /\ Len(parsedItems.items) > 0
                      THEN Nested(MessageContent(parsedItems.items, redirectUrl))
                      ELSE FormattedText(msg)
                 ELSE Nothing
            ELSE IF it.o.type = "cta_url" /\ href.kind \in {"invalid", "relative", "absolute"}
            THEN Link(href, display, IF msg # Undefined /\ Trim(msg) # "" THEN msg ELSE "")
            ELSE Stringified(it)]

\* The texts of text segments.
Texts ==
    {"", " ", "oi", " hi ", "{oi", "{\"a\":1}", "[]", "{\"type\"", "\"type\"",
     "{\"type\":\"text\",\"message\":\"oi\"}",
     "[\"type\",\"oi\"]",
     "[{\"type\":\"cta_url\",\"url\":\"/pay\"},1]",
     "{\"type\":\"text\",\"message\":\"[\\\"type\\\",\\\"oi\\\"]\"}"}

\* The urls of cta_url segments.
Hrefs ==
    {NoUrl,
     Href("number", "", "", <<>>),
     Href("empty", "", "", <<>>),
     Href("invalid", "http://", "", <<>>),
     Href("relative", "", "/pay", <<>>),
     Href("relative", "", "/pay", <<(<<"redirect_url", "https://back">>)>>),
     Href("absolute", "https://x", "", <<>>),
     Href("absolute", "https://x", "/pay", <<(<<"a", "1">>)>>),
     Href("absolute", "https://x", "/pay", <<(<<"redirect_url", "https://back">>)>>),
     Href("absolute", "https://x", "", <<(<<"a", "1">>), (<<"redirect_url", "https://back">>)>>)}

\* window.location.href
Locations == {"http://localhost:5173/", "http://localhost:5173/?thread_id=T1"}

Segments ==
    {TextItem(t) : t \in Texts \cup {Undefined}}
        \cup {JObj([type |-> "cta_url", message |-> m, url |-> u, display |-> d]) :
                m \in {Undefined, "oi"}, u \in Hrefs, d \in {Undefined, "Open"}}
        \cup {JObj([type |-> "image", message |-> Undefined, url |-> NoUrl, display |-> Undefined]),
              JArr(<<>>)}

InitRender ==
    /\ \E it \in Segments, loc \in Locations :
          probe = [fn |-> "segment", item |-> it, location |-> loc]
    /\ Idle
    /\ onboarding = NoForm
    /\ tree = NoTree

\* One segment is rendered; a text segment's re-parse is recorded beside it.
RenderSegment ==
    /\ probe.fn = "segment"
    /\ probe' = [fn |-> "MessageContent", item |-> probe.item, location |-> probe.location,
                 parsed |-> tryParseDisparoItemsFromText(probe.item.o.message),
                 node |-> MessageContent(<<probe.item>>, probe.location)[1]]
    /\ UNCHANGED <<vars_program, last>>

NextRender == RenderSegment

SpecRender == InitRender /\ [][NextRender]_vars

\* A cta_url segment whose url is a non-empty string was rendered.
RenderedCta ==
    /\ probe.fn = "MessageContent"
    /\ probe.item.o.type = "cta_url"
    /\ probe.item.o.url.kind \in {"invalid", "relative", "absolute"}

\* C14 as stated: a cta_url segment with a non-empty url renders as a link
\* whose href carries redirect_url equal to the page URL when the url had
\* none; when the url already has redirect_url, the href is the url
\* unchanged.
C14_CtaLinkCarriesRedirect ==
    RenderedCta =>
        /\ probe.node.kind = "a"
        /\ IF HasParam(probe.item.o.url.query, "redirect_url")
           THEN probe.node.href = probe.item.o.url
           ELSE GetParam(probe.node.href.query, "redirect_url") = probe.location

\* C14: a cta_url segment with a non-empty url renders as a link. When
\* the url parses (as it is or relative to the page's origin), the href is
\* its absolute written-back form: without a redirect_url of its own it
\* gets redirect_url equal to the page URL, appended after its other
\* parameters; with one, its parameters are left as they are. When the url
\* does not parse, the href is the url as given, without redirect_url.
C14_CtaLinkRedirectWhenParsed ==
    RenderedCta =>
        /\ probe.node.kind = "a"
        /\ IF probe.item.o.url.kind = "invalid"
           THEN probe.node.href = probe.item.o.url
           ELSE /\ probe.node.href.kind = "absolute"
                /\ probe.node.href.origin =
                      (IF probe.item.o.url.kind = "relative" THEN Origin ELSE probe.item.o.url.origin)
                /\ probe.node.href.path =
                      (IF probe.item.o.url.path = "" THEN "/" ELSE probe.item.o.url.path)
                /\ IF HasParam(probe.item.o.url.query, "redirect_url")
                   THEN probe.node.href.query = probe.item.o.url.query
                   ELSE probe.node.href.query =
                            Append(probe.item.o.url.query, <<"redirect_url", probe.location>>)

\* C14's case: a url with a parameter but no redirect_url was rendered as
\* a link that carries the page URL.
C14_Witness ==
    /\ RenderedCta
    /\ probe.item.o.url = Href("absolute", "https://x", "/pay", <<(<<"a", "1">>)>>)
    /\ probe.node.kind = "a"
    /\ GetParam(probe.node.href.query, "redirect_url") = probe.location
    /\ GetParam(probe.node.href.query, "a") = "1"

\* The re-parse has nothing to work on: the text is blank, does not start
\* with '{' or '[', lacks a "type" key, is not JSON, or is an array without
\* strings and objects.
NothingToParse(text) ==
    \/ Trim(text) = ""
    \/ ~StartsWithBracket(Trim(text))
    \/ ~IncludesType(Trim(text))
    \/ ~JSONparseText(Trim(text)).ok
    \/ /\ JSONparseText(Trim(text)).value.t = "array"
       /\ \A i \in 1..Len(JSONparseText(Trim(text)).value.xs) :
             JSONparseText(Trim(text)).value.xs[i].t \notin {"string", "object", "array"}

\* C15: for every text of a text segment the re-parse raises nothing and
\* returns a non-empty list of segments or nothing; it returns nothing
\* whenever the text is not JSON, does not start with '{' or '[', lacks a
\* "type" key or parses to an empty array, and then the segment is rendered
\* with its literal text (nothing at all for the empty text).
C15_ReparseNeverRaises ==
    (/\ probe.fn = "MessageContent"
     /\ probe.item.o.type = "text"
     /\ probe.item.o.message # Undefined)
    => /\ ~probe.parsed.raised
       /\ probe.node.kind # "exception"
       /\ probe.parsed.isNull \/ Len(probe.parsed.items) > 0
       /\ NothingToParse(probe.item.o.message) => probe.parsed.isNull
       /\ probe.parsed.isNull =>
             probe.node = IF probe.item.o.message = "" THEN Nothing
                          ELSE FormattedText(probe.item.o.message)

\* C15's case: a text that starts like JSON and has a "type" key but does
\* not parse was rendered literally.
C15_Witness ==
    /\ probe.fn = "MessageContent"
    /\ probe.item = TextItem("{\"type\"")
    /\ probe.parsed.isNull
    /\ probe.node = FormattedText("{\"type\"")

----------------------------------------------------------------------------
(* The message list of the chat view.                                      *)

\* C16: in every reachable state every message of the list has a role among
\* user, assistant and system and a finite number as its creation time,
\* whichever of a send, a failure, a history replay, a recovered step or a
\* pushed event made it.
C16_RolesAndFiniteTimes ==
    \A i \in 1..Len(chat.messages) :
        /\ chat.messages[i].role \in {"user", "assistant", "system"}
        /\ chat.messages[i].createdAt \in Int
        /\ chat.messages[i].createdAt # NaN

\* C16's case: a history whose second row has a created_at that is no date
\* was replayed, and the row's message is in the list.
C16_Witness ==
    /\ last.op = "loadDone"
    /\ \E i \in 1..Len(chat.messages) :
          /\ chat.messages[i].text = "a2"
          /\ chat.messages[i].createdAt = clock.now

\* old is the beginning of new.
IsPrefix(old, new) == Len(old) <= Len(new) /\ SubSeq(new, 1, Len(old)) = old

\* new was built from scratch: it starts with a system message that was not
\* in old, and the messages of old it still holds (the user message of the
\* send being settled) are the same records, in the same order.
BuiltAnew(old, new) ==
    /\ new # <<>>
    /\ new[1].role = "system"
    /\ \A i \in 1..Len(old) : old[i].id # new[1].id
    /\ SelectSeq(new, LAMBDA m : \E i \in 1..Len(old) : old[i].id = m.id)
         = SelectSeq(old, LAMBDA m : \E j \in 1..Len(new) : new[j].id = m.id)

\* C17: every step of a mounted chat view either appends messages at the
\* end of the list or puts a list built from scratch in its place; none
\* changes a message of the list, reorders the list or takes one message out
\* of it.
C17_AppendOrReplace ==
    [][(Mounted(World) /\ app'.settings # None /\ clock'.inst = clock.inst) =>
        /\ IsPrefix(chat.messages, chat'.messages) \/ BuiltAnew(chat.messages, chat'.messages)
        /\ \A i \in 1..Len(chat.messages) : chat'.messages # RemoveAt(chat.messages, i)
       ]_vars

\* C17's case: a send that switched threads has put a new list in place of
\* the old one, with its user message kept behind the new banner.
C17_Witness ==
    /\ last.op = "sendDone"
    /\ ~last.threw
    /\ Len(chat.messages) >= 3
    /\ chat.messages[1].text = ThreadText("T2")
    /\ chat.messages[2] = last.user

\* The context the response payload of message i carries.
CtxOf(i) == extractConversationContextFromResponseJson(TraceJson(chat.messages[i]))

\* Message i is the last one among the first n that carries a context.
LastWithCtx(i, n) ==
    /\ i \in 1..n
    /\ CtxOf(i) # None
    /\ \A j \in (i + 1)..n : CtxOf(j) = None

\* C18 as stated: the active context is always the context of the most
\* recent message of the list whose response payload carries context fields
\* (none when no message carries any).
C18_ContextOfMostRecent ==
    /\ (\A i \in 1..Len(chat.messages) : CtxOf(i) = None) => activeCtx(chat) = None
    /\ \A i \in 1..Len(chat.messages) :
          LastWithCtx(i, Len(chat.messages)) => activeCtx(chat) = CtxOf(i)

\* C18: the active context is always the context of the selected message
\* or, when that one carries none, of the nearest message before it that
\* carries one; when nothing is selected or nothing up to the selection
\* carries a context, it is the context of the most recent message that
\* carries one, and it is none when no message does.
C18_ContextOfSelection ==
    LET si == selectedIndex(chat)
        n == Len(chat.messages)
    IN  /\ \A i \in 1..si : LastWithCtx(i, si) => activeCtx(chat) = CtxOf(i)
        /\ (\A i \in 1..si : CtxOf(i) = None) =>
              /\ \A i \in 1..n : LastWithCtx(i, n) => activeCtx(chat) = CtxOf(i)
              /\ (\A i \in 1..n : CtxOf(i) = None) => activeCtx(chat) = None

\* C18's case: the selected message carries a context and a later message
\* carries another one.
C18_Witness ==
    /\ last.op = "select"
    /\ selectedIndex(chat) > 0
    /\ CtxOf(selectedIndex(chat)) # None
    /\ \E i \in (selectedIndex(chat) + 1)..Len(chat.messages) :
          /\ LastWithCtx(i, Len(chat.messages))
          /\ CtxOf(i) # CtxOf(selectedIndex(chat))
    /\ activeCtx(chat) = CtxOf(selectedIndex(chat))

----------------------------------------------------------------------------
(* Onboarding.tsx: the company list of the form.                           *)

MaxSwitches == 3

ApiEnvs == {"DEV", "PROD"}

\* What can come back to GET /v1/companies.
CompaniesResponse(kind, status, text, isArray, list) ==
    [kind |-> kind, status |-> status, text |-> text, isArray |-> isArray, list |-> list]

CompaniesResponses(env) ==
    {CompaniesResponse("rejected", 0, "", FALSE, <<>>),
     CompaniesResponse("http", 500, "oops", FALSE, <<>>),
     CompaniesResponse("http", 200, "garbage", FALSE, <<>>),
     CompaniesResponse("http", 200, "json", FALSE, <<>>),
     CompaniesResponse("http", 200, "json", TRUE, <<>>),
     CompaniesResponse("http", 200, "json", TRUE, <<env \o "-co1">>),
     CompaniesResponse("http", 200, "json", TRUE, <<env \o "-co1", env \o "-co2">>)}

\* The effect on [apiBaseUrl] runs: load() raises the loading flag, clears
\* the error and sends its request; the request remembers the `cancelled`
\* of its closure.
load(f) ==
    [f EXCEPT !.companiesLoading = TRUE,
              !.companiesError = Null,
              !.issued = @ + 1,
              !.requests = @ \cup {[id |-> f.issued + 1, env |-> f.apiEnv, cancelled |-> FALSE]}]

\* The effect's cleanup: cancelled = true in the closure of every earlier
\* run.
cleanup(f) ==
    [f EXCEPT !.requests = {[r EXCEPT !.cancelled = TRUE] : r \in @}]

\* The API select's onChange: apiEnv changes, so apiBaseUrl does, and the
\* effect is cleaned up and runs again.
setApiEnv(f, env) == load(cleanup([f EXCEPT !.apiEnv = env]))

\* What the try block of load() makes of a response: the Error's message
\* when fetch, the status test or JSON.parse throws, else the list.
ReadCompanies(resp) ==
    IF resp.kind = "rejected" THEN [threw |-> TRUE, message |-> "Failed to fetch", list |-> <<>>]
    ELSE IF ~(resp.status >= 200 /\ resp.status <= 299)
    THEN [threw |-> TRUE, message |-> "HTTP error: " \o resp.text, list |-> <<>>]
    ELSE IF resp.text = "garbage" THEN [threw |-> TRUE, message |-> "Unexpected token", list |-> <<>>]
    ELSE [threw |-> FALSE, message |-> "", list |-> IF resp.isArray THEN resp.list ELSE <<>>]

\* A load() that does not look at `cancelled` after its awaits: the variant
\* C19 is checked against.
loadSettledUncancelled(f, r, resp) ==
    LET read == ReadCompanies(resp)
        f1 == [f EXCEPT !.requests = @ \ {r}]
    IN  IF read.threw
        THEN [f1 EXCEPT !.companiesError = read.message, !.companies = <<>>,
                        !.companiesLoading = FALSE]
        ELSE [f1 EXCEPT !.companies = read.list, !.companiesLoading = FALSE]

\* load() after its awaits, for request r: a cancelled run returns without
\* a state change; a live one sets the list, or the error and an empty list,
\* and lowers the loading flag.
loadSettled(f, r, resp) ==
    LET read == ReadCompanies(resp)
        f1 == [f EXCEPT !.requests = @ \ {r}]
    IN  IF r.cancelled THEN f1
        ELSE IF read.threw
        THEN [f1 EXCEPT !.companiesError = read.message, !.companies = <<>>,
                        !.companiesLoading = FALSE]
        ELSE [f1 EXCEPT !.companies = read.list, !.companiesLoading = FALSE]

\* Onboarding mounts with either API environment and its effect runs.
InitCompanies ==
    /\ \E env \in ApiEnvs : onboarding = load([NoForm EXCEPT !.apiEnv = env])
    /\ Idle
    /\ probe = NoProbe
    /\ tree = NoTree

SwitchEnv ==
    /\ onboarding.issued <= MaxSwitches
    /\ \E env \in ApiEnvs \ {onboarding.apiEnv} :
          /\ onboarding' = setApiEnv(onboarding, env)
          /\ last' = [op |-> "setApiEnv"]
    /\ UNCHANGED <<app, url, chat, refs, eff, conns, net, clock, used, probe, tree>>

CompaniesDone ==
    /\ \E r \in onboarding.requests : \E resp \in CompaniesResponses(r.env) :
          /\ onboarding' = loadSettled(onboarding, r, resp)
          /\ last' = [op |-> "companiesDone", id |-> r.id, superseded |-> r.id # onboarding.issued,
                      threw |-> ReadCompanies(resp).threw, list |-> ReadCompanies(resp).list]
    /\ UNCHANGED <<app, url, chat, refs, eff, conns, net, clock, used, probe, tree>>

NextCompanies == SwitchEnv \/ CompaniesDone

SpecCompanies == InitCompanies /\ [][NextCompanies]_vars

\* C19: in the onboarding form, the response or failure of a request that
\* an environment switch has superseded changes neither the companies list
\* nor the error text nor the loading flag; the list changes only when the
\* latest request settles, to what that request gave (empty on failure), and
\* the loading flag is false once the latest request has settled.
C19_SupersededRequestIgnored ==
    [][/\ (last'.op = "companiesDone" /\ last'.superseded) =>
            /\ onboarding'.companies = onboarding.companies
            /\ onboarding'.companiesError = onboarding.companiesError
            /\ onboarding'.companiesLoading = onboarding.companiesLoading
       /\ onboarding'.companies # onboarding.companies =>
            /\ last'.op = "companiesDone"
            /\ last'.id = onboarding.issued
            /\ onboarding'.companies = last'.list
       /\ (\A r \in onboarding'.requests : r.id # onboarding'.issued) => ~onboarding'.companiesLoading
      ]_vars

\* C19's case: a request superseded by a switch has come back with
\* companies while the latest one is in flight; the list is still empty
\* and the loading flag still up.
C19_Witness ==
    /\ last.op = "companiesDone"
    /\ last.superseded
    /\ last.list # <<>>
    /\ onboarding.companies = <<>>
    /\ onboarding.companiesLoading
    /\ \E r \in onboarding.requests : r.id = onboarding.issued

----------------------------------------------------------------------------
(* The inspector of the chat view.                                         *)

\* C20: a company, customer, assistant or thread-history lookup whose
\* request fails or whose body is not JSON ends, in the chat view that
\* started it, with the inspector showing an error object or (company and
\* customer with an unparsable 2xx body) a raw-text wrapper under the
\* lookup's title, with inspectLoading false and with the message list as it
\* was; a click that starts a lookup does not change the list either.
C20_FailedLookupShown ==
    [][/\ (last'.op = "inspectDone" /\ last'.bad) =>
            /\ chat'.inspected # None
            /\ chat'.inspected[1].title = InspectTitle(last'.kind, last'.target)
            /\ chat'.inspected[1].value \in {"error", "raw"}
            /\ chat'.inspected[1].value = "error" => chat'.inspectError \notin {Null, ""}
            /\ ~chat'.inspectLoading
            /\ chat'.messages = chat.messages
       /\ (last'.op = "loadDone" /\ last'.own /\ last'.bad) =>
            /\ chat'.inspected = Some([title |-> "threads: " \o last'.tid, value |-> "error"])
            /\ chat'.inspectError \notin {Null, ""}
            /\ ~chat'.inspectLoading
            /\ chat'.messages = chat.messages
       /\ last'.op \in {"inspect", "inspectThread"} => chat'.messages = chat.messages
      ]_vars

\* C20's case: a company or customer lookup came back 2xx with a body that
\* is not JSON, and the inspector shows the raw-text wrapper.
C20_Witness ==
    /\ last.op = "inspectDone"
    /\ last.bad
    /\ chat.inspected # None
    /\ chat.inspected[1].value = "raw"
    /\ ~chat.inspectLoading

----------------------------------------------------------------------------
(* Onboarding.tsx: the fields of the form and its start button.            *)

MinPhoneDigits == 8

\* What the company select, the stored settings and the text inputs can
\* hold.
CompanyInputs == {"", " ", "co1", " co1 "}
PhoneInputs == {"", "abc", "1199", "11 9999-9999", "11999999", "+55 (11) 99999-9999"}
NameInputs == {"", " ", " Ana "}

\* normalizeDigits(value): value.replace(/[^\d]/g, ''), on PhoneInputs.
normalizeDigits(value) ==
    CASE value = "abc" -> ""
      [] value = "11 9999-9999" -> "1199999999"
      [] value = "+55 (11) 99999-9999" -> "5511999999999"
      [] OTHER -> value

\* API_OPTIONS.find((o) => o.id === apiEnv).baseUrl
apiBaseUrl(f) == IF f.apiEnv = "PROD" THEN "https://api.zibb.com.br" ELSE ""

\* A canStart that asks for a company only: the variant C21 is checked
\* against.
canStartWithCompany(f) == Len(Trim(f.companyId)) > 0

\* canStart
canStart(f) ==
    Len(Trim(f.companyId)) > 0 /\ Len(normalizeDigits(f.customerPhone)) >= MinPhoneDigits

\* disabled={!canStart || starting}
StartDisabled == ~canStart(onboarding) \/ app.starting

\* The object the start button's onClick hands to onStart, from the fields
\* of the render in which it was clicked.
StartObject(f) ==
    [companyId |-> Trim(f.companyId),
     customerPhone |-> normalizeDigits(f.customerPhone),
     customerName |-> IF Trim(f.customerName) = "" THEN Undefined ELSE Trim(f.customerName),
     apiBaseUrl |-> apiBaseUrl(f)]

\* What can come back to GET /v1/threads/open: the body's text is empty,
\* not JSON, or an object whose thread_id is `id`.
OpenThread(status, text, id) == [kind |-> "http", status |-> status, text |-> text, thread_id |-> id]

OpenThreadResponses ==
    {[kind |-> "rejected"],
     OpenThread(500, "json", JStr("T1")),
     OpenThread(200, "empty", JUndef),
     OpenThread(200, "garbage", JUndef),
     OpenThread(200, "json", JUndef),
     OpenThread(200, "json", JNull),
     OpenThread(200, "json", JStr(" ")),
     OpenThread(200, "json", JStr(" T1 ")),
     OpenThread(200, "json", JNum)}

\* A resolveOpenThreadId that does not look at resp.ok: the variant C33 is
\* checked against.
resolveOpenThreadIdAnyStatus(f, resp) ==
    LET returns(tid) == [threw |-> FALSE, message |-> Null, tid |-> tid]
        throws(msg) == [threw |-> TRUE, message |-> msg, tid |-> Null]
    IN  IF resp.kind = "rejected" THEN throws("Failed to fetch")
        ELSE IF resp.text = "garbage" THEN throws("Unexpected token")
        ELSE IF resp.text = "json" /\ resp.thread_id.t = "string" /\ Trim(resp.thread_id.s) # ""
        THEN returns(Trim(resp.thread_id.s))
        ELSE returns(Null)

\* resolveOpenThreadId() with the fields f of its render: the trimmed
\* thread_id of the body, null when there is none; it throws when the fetch
\* fails, the status is not 2xx, the text is not JSON, or thread_id is truthy
\* and has no trim (a number).  Without company or phone nothing is fetched.
resolveOpenThreadId(f, resp) ==
    LET returns(tid) == [threw |-> FALSE, message |-> Null, tid |-> tid]
        throws(msg) == [threw |-> TRUE, message |-> msg, tid |-> Null]
    IN  IF Trim(f.companyId) = "" \/ normalizeDigits(f.customerPhone) = "" THEN returns(Null)
        ELSE IF resp.kind = "rejected" THEN throws("Failed to fetch")
        ELSE IF ~(resp.status >= 200 /\ resp.status <= 299) THEN throws("HTTP error")
        ELSE IF resp.text = "empty" THEN returns(Null)
        ELSE IF resp.text = "garbage" THEN throws("Unexpected token")
        ELSE IF resp.thread_id.t = "number" THEN throws("trim is not a function")
        ELSE IF resp.thread_id.t = "string" /\ Trim(resp.thread_id.s) # ""
        THEN returns(Trim(resp.thread_id.s))
        ELSE returns(Null)

\* Onboarding is shown with its fields taken from `initial`, which is
\* whatever was stored, or empty.
InitForm ==
    /\ \E env \in ApiEnvs, c \in CompanyInputs, ph \in PhoneInputs, n \in {"", " Ana "} :
          onboarding = [NoForm EXCEPT !.apiEnv = env, !.companyId = c,
                                      !.customerPhone = ph, !.customerName = n]
    /\ \E location \in Urls : IdleAt(location)
    /\ probe = [fn |-> "form", clicked |-> None]
    /\ tree = NoTree

\* The fields' onChange handlers; the phone input keeps digits only.
SetCompanyId ==
    /\ ~Mounted(World)
    /\ \E v \in CompanyInputs : onboarding' = [onboarding EXCEPT !.companyId = v]
    /\ last' = [op |-> "setCompanyId"]
    /\ UNCHANGED <<app, url, chat, refs, eff, conns, net, clock, used, probe, tree>>

SetCustomerPhone ==
    /\ ~Mounted(World)
    /\ \E v \in PhoneInputs : onboarding' = [onboarding EXCEPT !.customerPhone = normalizeDigits(v)]
    /\ last' = [op |-> "setCustomerPhone"]
    /\ UNCHANGED <<app, url, chat, refs, eff, conns, net, clock, used, probe, tree>>

SetCustomerName ==
    /\ ~Mounted(World)
    /\ \E v \in NameInputs : onboarding' = [onboarding EXCEPT !.customerName = v]
    /\ last' = [op |-> "setCustomerName"]
    /\ UNCHANGED <<app, url, chat, refs, eff, conns, net, clock, used, probe, tree>>

\* The start button's onClick up to its await: the handler keeps the fields
\* of its render.
FormStartClick ==
    /\ ~Mounted(World)
    /\ ~StartDisabled
    /\ app' = [app EXCEPT !.starting = TRUE]
    /\ onboarding' = [onboarding EXCEPT !.startError = Null]
    /\ probe' = [fn |-> "form", clicked |-> Some(onboarding)]
    /\ last' = [op |-> "startClick"]
    /\ UNCHANGED <<url, chat, refs, eff, conns, net, clock, used, tree>>

\* The rest of onClick, when the open-thread lookup settles: the URL is
\* written (without thread id when the lookup threw), onStart gets the
\* object, App stores it and shows the chat view.
FormStartResolved ==
    /\ ~Mounted(World)
    /\ app.starting
    /\ \E resp \in OpenThreadResponses :
          LET got == resolveOpenThreadId(probe.clicked[1], resp)
          IN  /\ Becomes(onStart(onboardingSetThreadIdInLocation(
                                    [World EXCEPT !.app.starting = FALSE], got.tid),
                                 StartObject(probe.clicked[1])))
              /\ onboarding' = [onboarding EXCEPT !.startError = got.message]
              /\ last' = [op |-> "onStart", settings |-> StartObject(probe.clicked[1]),
                          resp |-> resp, threw |-> got.threw]
    /\ UNCHANGED <<probe, tree>>

NextForm ==
    \/ SetCompanyId
    \/ SetCustomerPhone
    \/ SetCustomerName
    \/ FormStartClick
    \/ FormStartResolved

SpecForm == InitForm /\ [][NextForm]_vars

\* The strings of the model that are made of decimal digits only.
DigitStrings == {"", "1199", "11999999", "1199999999", "5511999999999"}

\* A settings object has a company id that is trimmed and not empty and a
\* phone of at least eight decimal digits.
Startable(s) ==
    /\ s.companyId # ""
    /\ s.companyId \notin {" ", " co1 "}
    /\ s.customerPhone \in DigitStrings
    /\ Len(s.customerPhone) >= MinPhoneDigits

\* C21: every settings object Onboarding passes to onStart (and App then
\* holds) has a non-empty trimmed companyId and a customerPhone of decimal
\* digits only, at least eight of them; and in every state of the form
\* whose fields would not give such an object the start button is disabled.
C21_StartOnlyWithCompanyAndPhone ==
    /\ last.op = "onStart" =>
          /\ Startable(last.settings)
          /\ app.settings = Some(last.settings)
    /\ (~Mounted(World) /\ ~Startable(StartObject(onboarding))) => StartDisabled

\* C21's case: a phone typed with punctuation was handed to onStart as its
\* digits, after the field was emptied while the start was pending.
C21_Witness ==
    /\ last.op = "onStart"
    /\ last.settings.customerPhone = "5511999999999"
    /\ last.settings.companyId = "co1"
    /\ onboarding.customerPhone = ""

\* The lookup failed: no response, a status that is not 2xx, a body that is
\* not JSON, or a thread_id that is no string (reading it throws).
LookupFailed(resp) ==
    \/ resp.kind = "rejected"
    \/ resp.status \notin 200..299
    \/ resp.text = "garbage"
    \/ resp.text = "json" /\ resp.thread_id.t = "number"

\* The thread id a lookup that did not fail returned: its thread_id when
\* that is a string with more than blanks, trimmed; Null when it has none.
ReturnedThreadId(resp) ==
    IF resp.text = "json" /\ resp.thread_id.t = "string" /\ resp.thread_id.s \notin {"", " "}
    THEN Trim(resp.thread_id.s)
    ELSE Null

\* C33: a click on 'Iniciar conversa' starts the lookup only when none is
\* in flight; onStart is called once for it, when the lookup has settled,
\* found a thread or not or failed, and with the URL already rewritten: its
\* thread_id is the thread id the lookup returned, absent when there was
\* none or the lookup failed, and the legacy threadId is gone; the chat
\* view is shown in every case.
C33_StartAfterLookup ==
    [][/\ last'.op = "startClick" =>
            (~app.starting /\ app'.starting /\ ~Mounted(World'))
       /\ last'.op = "onStart" =>
            /\ app.starting /\ ~app'.starting
            /\ Mounted(World')
            /\ url'.threadId = Null
            /\ last'.threw = LookupFailed(last'.resp)
            /\ url'.thread_id = IF LookupFailed(last'.resp) THEN Null
                                ELSE ReturnedThreadId(last'.resp)]_vars

\* C33's case: the lookup failed, its error was recorded, and the
\* conversation started without a thread id in the URL.
C33_Witness ==
    /\ last.op = "onStart"
    /\ last.threw
    /\ Mounted(World)
    /\ url.thread_id = Null
    /\ onboarding.startError # Null

----------------------------------------------------------------------------
(* JsonTree.tsx: the tree view of a JSON value.                            *)

\* A JSON value as the tree sees it: t is its kind, s the text of a string
\* or a number, xs the items of an array, kv the members of an object as
\* <<key, value>> in the order of Object.keys.
TreeValue(t, s, xs, kv) == [t |-> t, s |-> s, xs |-> xs, kv |-> kv]

TUndefined == TreeValue("undefined", "", <<>>, <<>>)
TNull == TreeValue("null", "", <<>>, <<>>)
TStr(x) == TreeValue("string", x, <<>>, <<>>)
TNum(x) == TreeValue("number", x, <<>>, <<>>)
TArr(xs) == TreeValue("array", "", xs, <<>>)
TObj(kv) == TreeValue("object", "", <<>>, kv)

isPlainObject(v) == v.t = "object"

\* Array.isArray(value) || isPlainObject(value)
Expandable(v) == v.t \in {"array", "object"}

\* item[k]: undefined when the object has no such member.
Field(item, k) ==
    IF \E i \in 1..Len(item.kv) : item.kv[i][1] = k
    THEN item.kv[CHOOSE i \in 1..Len(item.kv) : item.kv[i][1] = k][2]
    ELSE TUndefined

\* String(i) for the indexes of the model's arrays.
IndexText == <<"0", "1", "2", "3", "4", "5">>

\* A getNamedArrayLabel that takes any name or id the item has, whatever its
\* type: the variant C22 is checked against.
getNamedArrayLabelOfAnyType(item, index) ==
    IF isPlainObject(item) /\ Field(item, "name") # TUndefined
    THEN "[" \o Trim(Field(item, "name").s) \o "]"
    ELSE IF isPlainObject(item) /\ Field(item, "id") # TUndefined
    THEN "[" \o Trim(Field(item, "id").s) \o "]"
    ELSE "[" \o IndexText[index + 1] \o "]"

\* getNamedArrayLabel(item, index): the trimmed name when it is a non-blank
\* string, else the trimmed id when it is a non-blank string, else the index.
getNamedArrayLabel(item, index) ==
    LET nm == Field(item, "name")
        id == Field(item, "id")
    IN  IF isPlainObject(item) /\ nm.t = "string" /\ Trim(nm.s) # ""
        THEN "[" \o Trim(nm.s) \o "]"
        ELSE IF isPlainObject(item) /\ id.t = "string" /\ Trim(id.s) # ""
        THEN "[" \o Trim(id.s) \o "]"
        ELSE "[" \o IndexText[index + 1] \o "]"

\* The keys of the model's objects as a.localeCompare(b) orders them:
\* letters of either case together, the lower case first.
Collation == <<"a", "b", "B", "id", "name", "steps", "z">>

\* The same keys by their UTF-16 code units.
CodeUnits == <<"B", "a", "b", "id", "name", "steps", "z">>

Rank(order, k) == CHOOSE i \in 1..Len(order) : order[i] = k

\* a.localeCompare(b) < 0
localeCompareLess(a, b) == Rank(Collation, a) < Rank(Collation, b)

\* [...keys].sort((a, b) => a.localeCompare(b)), a stable sort.
RECURSIVE InsertKey(_, _)
InsertKey(sorted, k) ==
    IF sorted = <<>> THEN <<k>>
    ELSE IF localeCompareLess(k, Head(sorted)) THEN <<k>> \o sorted
    ELSE <<Head(sorted)>> \o InsertKey(Tail(sorted), k)

RECURSIVE sortKeys(_)
sortKeys(keys) ==
    IF keys = <<>> THEN <<>>
    ELSE InsertKey(sortKeys(SubSeq(keys, 1, Len(keys) - 1)), keys[Len(keys)])

ObjectKeys(v) == [i \in 1..Len(v.kv) |-> v.kv[i][1]]

\* The entries an expanded Node renders, in order: key, value and label.
Entries(v) ==
    IF v.t = "array"
    THEN [i \in 1..Len(v.xs) |->
            [key |-> IndexText[i], value |-> v.xs[i], label |-> getNamedArrayLabel(v.xs[i], i - 1)]]
    ELSE LET keys == sortKeys(ObjectKeys(v))
         IN  [i \in 1..Len(keys) |->
                [key |-> keys[i], value |-> Field(v, keys[i]), label |-> keys[i]]]

\* A Node is known by its path from the root: the keys of the entries that
\* lead to it (React keeps a child's state under its key).
RECURSIVE ValueAt(_, _)
ValueAt(v, path) ==
    IF path = <<>> THEN v
    ELSE ValueAt(IF v.t = "array" THEN v.xs[Rank(IndexText, Head(path))] ELSE Field(v, Head(path)),
                 Tail(path))

\* The Nodes that mount when the Node at `path` mounts, each with
\* useState(() => depth < defaultExpandedDepth); a closed Node renders no
\* children.  Only expandable Nodes are kept.
RECURSIVE MountNode(_, _, _)
MountNode(v, path, depthLimit) ==
    IF ~Expandable(v) THEN {}
    ELSE {[path |-> path, open |-> Len(path) < depthLimit]}
            \cup (IF Len(path) < depthLimit
                  THEN UNION {MountNode(Entries(v)[i].value, Append(path, Entries(v)[i].key), depthLimit) :
                                i \in 1..Len(Entries(v))}
                  ELSE {})

IsUnder(path, parent) ==
    /\ Len(path) > Len(parent)
    /\ SubSeq(path, 1, Len(parent)) = parent

\* The toggle button of the Node at path: setOpen(false) unmounts the Nodes
\* under it, setOpen(true) mounts its children anew.
setOpen(t, path) ==
    LET node == CHOOSE n \in t.nodes : n.path = path
        v == ValueAt(t.value, path)
    IN  IF node.open
        THEN [t EXCEPT !.nodes = {n \in @ : n.path # path /\ ~IsUnder(n.path, path)}
                                    \cup {[path |-> path, open |-> FALSE]}]
        ELSE [t EXCEPT !.nodes = (@ \ {node}) \cup {[path |-> path, open |-> TRUE]}
                                    \cup UNION {MountNode(Entries(v)[i].value,
                                                          Append(path, Entries(v)[i].key),
                                                          t.defaultExpandedDepth) :
                                                  i \in 1..Len(Entries(v))}]

\* The values the tree is given: a response with array items named in every
\* way, keys of both cases, and nesting four deep.
TreeItems ==
    <<TObj(<< <<"id", TStr("i1")>>, <<"name", TStr(" Ana ")>> >>),
      TObj(<< <<"name", TStr(" ")>>, <<"id", TStr("i2")>> >>),
      TObj(<< <<"name", TNum("5")>>, <<"id", TStr("i3")>> >>),
      TObj(<< <<"id", TNum("7")>> >>),
      TObj(<< <<"a", TArr(<<TNull>>)>> >>),
      TStr("x")>>

TreeValues ==
    {TObj(<< <<"steps", TArr(TreeItems)>>,
             <<"b", TNum("1")>>,
             <<"B", TObj(<< <<"z", TNull>>, <<"a", TObj(<< <<"id", TArr(<<>>)>> >>)>> >>)>>,
             <<"a", TStr("s")>> >>),
     TArr(<<TObj(<< <<"id", TNum("7")>> >>), TArr(<<TArr(<<TObj(<<>>)>>)>>)>>),
     TStr("x")}

DepthLimits == 0..3

\* <JsonTree value defaultExpandedDepth />: the root Node mounts at depth 0.
JsonTree(value, depthLimit) ==
    [shown |-> TRUE, value |-> value, defaultExpandedDepth |-> depthLimit,
     nodes |-> MountNode(value, <<>>, depthLimit)]

InitTree ==
    /\ \E v \in TreeValues, d \in DepthLimits : tree = JsonTree(v, d)
    /\ Idle
    /\ probe = NoProbe
    /\ onboarding = NoForm

\* What was last seen of each Node: its `open` when it was last mounted.
Remember(old, nodes) ==
    {r \in old : \A n \in nodes : n.path # r.path} \cup nodes

\* A click on a Node's toggle.
Toggle ==
    /\ \E n \in tree.nodes :
          /\ tree' = setOpen(tree, n.path)
          /\ last' = [op |-> "setOpen", path |-> n.path, was |-> n.open,
                      seen |-> Remember(IF last.op = "setOpen" THEN last.seen ELSE {}, tree.nodes)]
    /\ UNCHANGED <<app, url, chat, refs, eff, conns, net, clock, used, probe, onboarding>>

NextTree == Toggle

SpecTree == InitTree /\ [][NextTree]_vars

\* The Nodes that are open, with what they show.
OpenNodes == {n \in tree.nodes : n.open}

Shown(n) == Entries(ValueAt(tree.value, n.path))

IsSorted(keys, order) ==
    \A i, j \in 1..Len(keys) : i < j => Rank(order, keys[i]) < Rank(order, keys[j])

\* C22 as stated: in the expanded tree every array entry is labelled by
\* its name member when it has one, else by its id member when it has one,
\* else by its index, and the keys of every object are listed in
\* lexicographic order.
C22_LabelledByNameOrId ==
    \A n \in OpenNodes :
        LET v == ValueAt(tree.value, n.path)
        IN  IF v.t = "array"
            THEN \A i \in 1..Len(v.xs) :
                    Shown(n)[i].label =
                        IF isPlainObject(v.xs[i]) /\ Field(v.xs[i], "name") # TUndefined
                        THEN "[" \o Trim(Field(v.xs[i], "name").s) \o "]"
                        ELSE IF isPlainObject(v.xs[i]) /\ Field(v.xs[i], "id") # TUndefined
                        THEN "[" \o Trim(Field(v.xs[i], "id").s) \o "]"
                        ELSE "[" \o IndexText[i] \o "]"
            ELSE IsSorted([i \in 1..Len(Shown(n)) |-> Shown(n)[i].label], CodeUnits)

\* C22: in the expanded tree every array entry is labelled by its trimmed
\* name when the name is a string that is not blank, else by its trimmed id
\* when the id is a string that is not blank, else by its index from 0 (so
\* an entry whose only id is a number, or whose name is a number, is not
\* labelled by it); and the keys of every object are all listed, in the
\* order of localeCompare, which puts "a" and "b" before "B".
C22_LabelledByStringNameOrId ==
    \A n \in OpenNodes :
        LET v == ValueAt(tree.value, n.path)
        IN  IF v.t = "array"
            THEN /\ Len(Shown(n)) = Len(v.xs)
                 /\ \A i \in 1..Len(v.xs) :
                      LET nm == Field(v.xs[i], "name")
                          id == Field(v.xs[i], "id")
                          named == isPlainObject(v.xs[i]) /\ nm.t = "string" /\ nm.s \notin {"", " "}
                          ided == isPlainObject(v.xs[i]) /\ id.t = "string" /\ id.s \notin {"", " "}
                      IN  /\ named => Shown(n)[i].label = "[" \o Trim(nm.s) \o "]"
                          /\ (~named /\ ided) => Shown(n)[i].label = "[" \o Trim(id.s) \o "]"
                          /\ (~named /\ ~ided) => Shown(n)[i].label = "[" \o IndexText[i] \o "]"
            ELSE /\ {Shown(n)[i].label : i \in 1..Len(Shown(n))} = {v.kv[i][1] : i \in 1..Len(v.kv)}
                 /\ Len(Shown(n)) = Len(v.kv)
                 /\ IsSorted([i \in 1..Len(Shown(n)) |-> Shown(n)[i].label], Collation)

\* C22's case: the array of steps is expanded, with an entry labelled by
\* its name, one by its id and one, whose id is a number, by its index.
C22_Witness ==
    /\ tree.shown
    /\ \E n \in OpenNodes :
          /\ n.path = <<"steps">>
          /\ Shown(n)[1].label = "[Ana]"
          /\ Shown(n)[2].label = "[i2]"
          /\ Shown(n)[4].label = "[3]"
    /\ last.op = "setOpen"

\* C23: every Node starts expanded exactly when its depth is below
\* defaultExpandedDepth, and a click on one Node's toggle changes that
\* Node's state only: every other Node shows afterwards the state it was
\* last seen in, also a descendant of a Node that was collapsed and is
\* expanded again.
C23_ToggleChangesOnlyThatNode ==
    /\ last.op = "init" => \A n \in IF tree.shown THEN tree.nodes ELSE {} :
                              n.open <=> Len(n.path) < tree.defaultExpandedDepth
    /\ last.op = "setOpen" =>
          /\ \E n \in tree.nodes : n.path = last.path /\ n.open = ~last.was
          /\ \A n \in tree.nodes : \A r \in last.seen :
                (n.path = r.path /\ n.path # last.path) => n.open = r.open

----------------------------------------------------------------------------
(* Chat.tsx: the thread id of a response, push messages and history loads  *)

\* C24: after a successful send whose response is no close or delete-user
\* action and whose data.thread_id is a non-empty string T, the URL's thread
\* id is T and the tracked thread id is T, whatever else the data holds.
C24_ResponseThreadIdTracked ==
    (/\ last.op = "sendDone"
     /\ ~last.threw
     /\ ~last.close
     /\ last.respTid # Null)
    => /\ getThreadIdFromLocation(url) = last.respTid
       /\ chat.loadedThreadId = last.respTid

\* The assistant messages without a trace that show text t: open messages.
CountOpen(msgs, t) ==
    Cardinality({i \in 1..Len(msgs) :
                    msgs[i].role = "assistant" /\ msgs[i].text = t /\ msgs[i].trace = None})

\* msgs[i] is an open message that the push channel appended after the
\* user message of the send in flight.
PushedDuringSend(msgs, userMsg, i) ==
    /\ msgs[i].role = "assistant"
    /\ msgs[i].trace = None
    /\ \E j \in 1..(i - 1) : msgs[j] = userMsg

\* C25: when the response of a send is processed, an open message that
\* the push channel appended during that send less than StepDedupMs ago is
\* not shown once more than before, also when the response's steps carry
\* its text and also when several open messages were pushed during the send.
C25_PushedNotRepeated ==
    [][(last'.op = "sendDone" /\ ~last'.threw) =>
          \A i \in 1..Len(chat.messages) :
              (/\ PushedDuringSend(chat.messages, last'.user, i)
               /\ clock.now - chat.messages[i].createdAt < StepDedupMs)
              => CountOpen(chat'.messages, chat.messages[i].text)
                    <= CountOpen(chat.messages, chat.messages[i].text)]_vars

\* m is the user message of a send in flight, or the reply to a send: an
\* assistant message with the trace of a response (a replayed row's trace
\* has an empty answer).
SentOrReply(m) ==
    \/ \E j \in 1..Len(net.sends) : net.sends[j].userMsg = m
    \/ /\ m.role = "assistant"
       /\ TraceJson(m) # None
       /\ TraceJson(m)[1].answer # ""

\* C26: a thread-history load that settles while a send is in flight, or
\* after its reply arrived, removes neither the sent user message nor the
\* reply from the list.
C26_LoadKeepsSentMessage ==
    [][last'.op = "loadDone" =>
          \A i \in 1..Len(chat.messages) :
              SentOrReply(chat.messages[i])
              => \E k \in 1..Len(chat'.messages) : chat'.messages[k] = chat.messages[i]]_vars

\* The step is a popstate, in a mounted Chat, to a URL whose thread id is
\* not the tracked one.
PopstateToOtherThread ==
    /\ last'.op = "popstate"
    /\ Mounted(World)
    /\ getThreadIdFromLocation(url') # Null
    /\ getThreadIdFromLocation(url') # chat.loadedThreadId

\* The step left the 'Carregando thread' banner of the URL's thread id as
\* the only message.
ShowsLoadingBanner ==
    /\ Len(chat'.messages) = 1
    /\ chat'.messages[1].role = "system"
    /\ chat'.messages[1].text = LoadingText(getThreadIdFromLocation(url'))

\* The step issued a history fetch for the URL's thread id.
IssuesHistoryFetch ==
    /\ Len(net'.loads) = Len(net.loads) + 1
    /\ net'.loads[Len(net'.loads)].tid = getThreadIdFromLocation(url')

\* C27: between handlers the suppress-next-URL-sync flag is false, and a
\* popstate to a thread id other than the tracked one resets the
\* conversation to the loading banner and starts a history load for it.
C27_SuppressConsumed ==
    /\ [](~refs.suppress)
    /\ [][PopstateToOtherThread => (ShowsLoadingBanner /\ IssuesHistoryFetch)]_vars

\* The step replaced the list by the 'Carregando thread' banner of t.
PlacesLoadingBanner(t) ==
    /\ Mounted(World')
    /\ Len(chat'.messages) = 1
    /\ chat'.messages[1].role = "system"
    /\ chat'.messages[1].text = LoadingText(t)
    /\ chat'.messages # chat.messages

\* After the step a history fetch for t, started by the mounted Chat in
\* this step, is in flight.
FetchIssuedFor(t) ==
    /\ used'.loads = used.loads + 1
    /\ net'.loads # <<>>
    /\ net'.loads[Len(net'.loads)].tid = t
    /\ net'.loads[Len(net'.loads)].inst = clock'.inst

\* C28: whenever the URL synchronisation replaces the list with the
\* 'Carregando thread: T...' banner, a history fetch for T is issued in the
\* same step, also when an inspector lookup is in flight then.
C28_BannerMeansFetch ==
    [][\A t \in ThreadIds : PlacesLoadingBanner(t) => FetchIssuedFor(t)]_vars

\* C29: a step closes an open push connection and opens a new one only
\* when the thread id the connection is scoped to changes (or the Chat is
\* another one, with other settings): no step replaces a connection by a
\* new one of the same Chat for the same thread id.
C29_ReconnectOnlyOnThreadChange ==
    [][\A c \in conns : c \notin conns' =>
          ~\E d \in conns' : d.tid = c.tid /\ d.inst = c.inst]_vars

----------------------------------------------------------------------------
(* Chat.tsx: the loading flag.  A fetch settles: it resolves, or it        *)
(* rejects when the network fails, so a send in flight is answered.        *)

SpecSending == Init /\ [][Next]_vars /\ WF_vars(SendDone)

\* The mounted Chat has a send in flight.
SendInFlight ==
    \E i \in 1..Len(net.sends) : Mounted(World) /\ net.sends[i].inst = clock.inst

\* C30: the loading flag is true exactly while a send of the mounted Chat
\* is in flight: an accepted onSend sets it, every way the request settles
\* clears it, and whenever it is set it is cleared later, so that onSend
\* accepts a send again.
C30_LoadingWhileSending ==
    /\ [](chat.loading <=> SendInFlight)
    /\ [][(last'.op = "sendDone") => (chat.loading /\ ~chat'.loading)]_vars
    /\ (chat.loading ~> ~chat.loading)

\* C30's case: a first send has settled and a second one was accepted.
C30_Witness ==
    /\ last.op = "onSend"
    /\ last.accepted
    /\ used.sends = MaxSends
    /\ chat.loading
    /\ Len(net.sends) = 1

----------------------------------------------------------------------------
(* Chat.tsx: what the handlers leave alone                                 *)

\* C31: onSend called while a send is in flight, or with a draft that is
\* empty or blank, changes nothing: the list, draft, error, selection and
\* every other state of Chat are as before, no request is issued and the
\* URL is not touched.
C31_RefusedSendChangesNothing ==
    [][(last'.op = "onSend" /\ (chat.loading \/ Trim(chat.draft) = ""))
          => (/\ ~last'.accepted
              /\ chat' = chat
              /\ net' = net
              /\ url' = url
              /\ refs' = refs
              /\ conns' = conns)]_vars

\* C31's case: Enter was pressed on a draft with text while a send was in
\* flight, and was refused.
C31_Witness ==
    /\ last.op = "onSend"
    /\ ~last.accepted
    /\ chat.loading
    /\ Trim(chat.draft) # ""
    /\ Len(net.sends) = 1

\* Role and text of the messages a history's rows are replayed as: for each
\* row in order a user message for a non-blank input, then an assistant
\* message for a non-blank output.
RECURSIVE Replayed(_)
Replayed(rows) ==
    IF rows = <<>> THEN <<>>
    ELSE LET row == Head(rows)
         IN  (IF row.input \notin {Undefined, "", " "}
              THEN <<[role |-> "user", text |-> row.input]>> ELSE <<>>)
             \o (IF row.output \notin {Undefined, "", " "}
                 THEN <<[role |-> "assistant", text |-> row.output]>> ELSE <<>>)
             \o Replayed(Tail(rows))

RoleAndText(msgs) == [i \in 1..Len(msgs) |-> [role |-> msgs[i].role, text |-> msgs[i].text]]

\* The step is a history load of the mounted Chat that succeeded.
HistoryLoaded ==
    /\ last'.op = "loadDone"
    /\ last'.own
    /\ ~last'.threw

\* C32: a successful history load for T leaves the list as the 'Thread
\* carregada: T' banner followed by the replayed rows, and the tracked
\* thread id and the URL's thread id both T.
C32_HistoryReplacesList ==
    [][HistoryLoaded =>
          /\ RoleAndText(chat'.messages)
                = <<[role |-> "system", text |-> LoadedText(last'.tid)]>> \o Replayed(last'.rows)
          /\ chat'.loadedThreadId = last'.tid
          /\ getThreadIdFromLocation(url') = last'.tid]_vars

\* The steps of a response body that carry an open message: named
\* tool_open_message.* or assistant_open_message.*, with a message that is
\* not blank.
OpenSteps(body) ==
    {i \in 1..Len(body.steps) :
        /\ body.steps[i].name \in {"tool_open_message.search", "assistant_open_message.greet"}
        /\ body.steps[i].message \notin {Undefined, "", " "}}

\* The places of the list after the step whose message the step added as
\* an open message: an assistant message without trace that is new.
RecoveredAt ==
    {i \in 1..Len(chat'.messages) :
        /\ chat'.messages[i].role = "assistant"
        /\ chat'.messages[i].trace = None
        /\ \A j \in 1..Len(chat.messages) : chat.messages[j].id # chat'.messages[i].id}

\* The list after the step ends with the reply of a send: an assistant
\* message with the trace of a response body.
EndsWithReply ==
    LET m == chat'.messages[Len(chat'.messages)]
    IN  m.role = "assistant" /\ TraceJson(m) # None

ReplyBody == TraceJson(chat'.messages[Len(chat'.messages)])[1]

----------------------------------------------------------------------------
(* Chat.tsx: invariants of the message list                                *)

\* The texts of the banners: start, loading, loaded thread, new thread and
\* closed.
BannerTexts ==
    {StartText, ClosedText}
        \cup {LoadingText(t) : t \in ThreadIds}
        \cup {LoadedText(t) : t \in ThreadIds}
        \cup {ThreadText(t) : t \in ThreadIds}

\* C35: whenever the chat view is shown its message list is not empty and
\* begins with a system message, one of the banners.
C35_ListBeginsWithBanner ==
    Mounted(World) =>
        /\ chat.messages # <<>>
        /\ chat.messages[1].role = "system"
        /\ chat.messages[1].text \in BannerTexts
        /\ chat.messages[1].trace = None

\* C35's case: a close response replaced the list, which begins with the
\* closed banner and goes on with the user message and the reply.
C35_Witness ==
    /\ Mounted(World)
    /\ last.op = "sendDone"
    /\ last.close
    /\ Len(chat.messages) >= 3
    /\ chat.messages[1].text = ClosedText
    /\ chat.messages[2] = last.user

\* C36: in every state of the chat view the selected message id is null or
\* the id of a message of the list.
C36_SelectionInList ==
    Mounted(World) =>
        \/ chat.selectedId = None
        \/ \E i \in 1..Len(chat.messages) : chat.messages[i].id = chat.selectedId[1]

\* C36's case: a history load replaced the list while a send was in flight,
\* so the selected user message is gone and the selection is the last
\* replayed message.
C36_Witness ==
    /\ Mounted(World)
    /\ last.op = "loadDone"
    /\ ~last.threw
    /\ Len(net.sends) = 1
    /\ \A i \in 1..Len(chat.messages) : chat.messages[i] # net.sends[1].userMsg
    /\ chat.selectedId = Some(chat.messages[Len(chat.messages)].id)
    /\ Len(chat.messages) > 1

\* The thread id setThreadIdInLocation(t) is to leave in the URL: the
\* trimmed t, or none when t is null or blank.
Wanted(t) == IF t = Null \/ Trim(t) = "" THEN Null ELSE Trim(t)

\* C37: a call of setThreadIdInLocation(t) leaves the URL with thread_id
\* the trimmed t (absent when t is null or blank) and without threadId; it
\* replaces the history entry and dispatches exactly when the URL changes;
\* and a call that repeats the value of the call before it dispatches
\* nothing.
C37_LocationRewritten ==
    [][LET n == Len(probe'.given)
           t == probe'.given[n]
       IN  /\ url'.thread_id = Wanted(t)
           /\ url'.threadId = Null
           /\ getThreadIdFromLocation(url') = Wanted(t)
           /\ probe'.dispatched[n] = (url' # url)
           /\ (n > 1 /\ probe.given[n - 1] = t) => ~probe'.dispatched[n]]_vars

\* C37's case: a page opened at the legacy ?threadId=T1 was given " T1 "
\* twice: the first call rewrote the URL and dispatched, the second did
\* neither.
C37_Witness ==
    /\ probe.fn = "location"
    /\ probe.given = <<" T1 ", " T1 ">>
    /\ probe.dispatched = <<TRUE, FALSE>>
    /\ url = [thread_id |-> "T1", threadId |-> Null]

\* A pushed event that is not an open_message object (empty data, data
\* JSON.parse rejects, a value that is not an object, another type), or one
\* whose text is blank.
IgnoredPush == last'.op = "push" /\ (last'.text = Null \/ Trim(last'.text) = "")

\* C38: a pushed event with empty or unparseable data, that is not an
\* object, of a type other than open_message, or with blank text leaves the
\* message list, the de-duplication record and the error banner as they
\* were, as it leaves everything else of the program.
C38_IgnoredPushChangesNothing ==
    [][IgnoredPush =>
          /\ chat'.messages = chat.messages
          /\ refs'.lastOpenMsg = refs.lastOpenMsg
          /\ chat'.error = chat.error
          /\ chat' = chat /\ refs' = refs /\ eff' = eff /\ conns' = conns
          /\ net' = net /\ url' = url /\ app' = app /\ clock' = clock]_vars

\* C38's case: after a pushed message was shown and recorded, an event that
\* is not an open_message arrived, and the record and the list still end
\* with that message.
C38_Witness ==
    /\ last.op = "push"
    /\ last.text = Null
    /\ last.lastRef # None
    /\ refs.lastOpenMsg = last.lastRef
    /\ chat.messages[Len(chat.messages)].text = refs.lastOpenMsg[1].text
    /\ chat.error = Null

====
